---------------------------- MODULE Spec2Model ----------------------------
(***************************************************************************)
(* Batched LOR assembly (fem/lor/lor_batched.cpp): the two-pass CSR        *)
(* construction (FillI, FillJAndData), the serial essential-DOF            *)
(* elimination (Assemble) and the distributed elimination (ParAssemble).   *)
(*                                                                         *)
(* Arrays are functions over 0..n-1, indexed as in the C++ code.           *)
(***************************************************************************)
EXTENDS Integers, Sequences, FiniteSets, TLC

(***************************************************************************)
(* Bounds of the model.                                                    *)
(***************************************************************************)
\* nel_ho: number of elements
NE == 2
\* ndof_per_el: local DOF slots per element
ND == 2
\* nnz_per_row: candidate nonzeros per local row (height of sparse_mapping)
NNZ == 2
\* largest nvdof (number of global DOFs) of an input
NV == 3

\* climits: the value GetMinElt starts from
INT_MAX == 2147483647

VARIABLES
  pc,            \* phase of SparseIJToCSR
  el_dof_lex,    \* el_restr->GatherMap(): signed global DOF of (slot, element)
  nvdof,         \* fes_ho.GetVSize()
  K,             \* el_restr->Offsets()
  dof_glob2loc,  \* el_restr->Indices(): signed E-vector indices, grouped by DOF
  map,           \* sparse_mapping(j, ii_el): local column slot or -1
  V,             \* sparse_ij(j, ii_el, iel_ho): local values
  I,             \* A.I
  J,             \* A.J
  AV,            \* A.Data
  nnzRet,        \* the value FillI returned
  Icur,          \* I_ of FillJAndData: the per-row write cursors
  wpc,           \* per worker i of the running MFEM_FORALL: its next j
  rowcount,      \* history: the per-row counters the counting pass produced
  counted,       \* history: the (i, j) that incremented a counter in FillI
  wrote,         \* history: the (i, j) that wrote an entry in FillJAndData
  wcount,        \* history: how many times each index of J/Data was written
  oob,           \* history: a write of J/Data outside the allocated arrays
  run,           \* which assembly of the same inputs this is (1 or 2)
  prevI,         \* history: A.I of the first assembly
  prevRows,      \* history: per row, the set of (col, value) of the first assembly
  ess_dofs,      \* serial Assemble: the essential DOFs
  epc,           \* per elimination worker i, its next j (ParAssemble: per domain)
  A0,            \* history: A.Data as AssembleWithoutBC left it
  identity,      \* ParAssemble: IsIdentityProlongation(...)
  par_ess_dofs,  \* ParAssemble: per domain, its ess_dofs
  diag,          \* per domain, the diagonal block: [i, j, data]
  offd,          \* per domain, the off-diagonal block: [i, j, data]
  col_map_offd,  \* per domain, the DOF of the peer behind each offd column
  send_map_elmts,\* per domain, the local DOFs whose mask entry it sends
  eliminate_row, \* per domain, the mask of its essential rows
  eliminate_col, \* per domain, the mask received for its offd columns
  int_buf_data,  \* per domain, the send buffer
  cols_to_eliminate, \* per domain, the offd columns to eliminate
  ppc,           \* per domain, its position in ParAssemble
  net,           \* per domain, the messages in flight to it
  recvd,         \* per domain, its receive request has completed
  writer,        \* history: per index of J/Data, the (i, j) that wrote it last
  lists,         \* the fill of the per-worker element lists of one worker
  form,          \* the static Assemble entry point: the form and what it ran
  own,           \* HypreStealOwnership: the Memory objects of the two matrices
  handle         \* SparseIJToCSR: the caller's OperatorHandle and its matrix

asmvars == << pc, el_dof_lex, nvdof, K, dof_glob2loc, map, V, I, J, AV, nnzRet,
              Icur, wpc, rowcount, counted, wrote, wcount, oob, run, prevI,
              prevRows, writer >>

elimvars == << ess_dofs, epc, A0 >>

parvars == << identity, par_ess_dofs, diag, offd, col_map_offd, send_map_elmts,
              eliminate_row, eliminate_col, int_buf_data, cols_to_eliminate,
              ppc, net, recvd >>

auxvars == << lists, form, own, handle >>

vars == << asmvars, elimvars, parvars, auxvars >>

inputs == << el_dof_lex, nvdof, K, dof_glob2loc, map, V >>

-----------------------------------------------------------------------------
(***************************************************************************)
(* Index helpers.                                                          *)
(***************************************************************************)
\* number of (element, slot) pairs: the size of the MFEM_FORALL index space
NP == ND * NE

Workers == 0 .. NP - 1

\* v >= 0 ? v : -1 - v
Decode(s) == IF s >= 0 THEN s ELSE -1 - s

\* Reshape(el_dof_lex_.Read(), ndof_per_el, nel_ho)(ii_el, iel_ho)
ElDofLex(t, ii_el, iel_ho) == t[ii_el + ND * iel_ho]

\* Reshape(sparse_mapping.Read(), nnz_per_row, ndof_per_el)(j, ii_el)
MapAt(m, j, ii_el) == m[j + NNZ * ii_el]

\* Flat index of Reshape(sparse_ij.Read(), nnz_per_row, ndof_per_el, nel_ho)
VIndex(j, ii_el, iel_ho) == j + NNZ * (ii_el + ND * iel_ho)

\* What a read one element before the start of sparse_ij may return.
Garbage == {-1000, 1000}

\* V(j, ii_el, iel_ho): the flat array read at VIndex; g is what the memory
\* before the array holds.
ReadV(v, j, ii_el, iel_ho, g) ==
  LET n == VIndex(j, ii_el, iel_ho)
  IN  IF n \in DOMAIN v THEN v[n] ELSE g

-----------------------------------------------------------------------------
(***************************************************************************)
(* The incidence table of the element restriction, built from the gather   *)
(* map: for each global DOF, the (element, slot) pairs referencing it in   *)
(* increasing E-vector index, carrying the sign of the gather map entry.   *)
(***************************************************************************)
\* offsets[g]: number of (element, slot) pairs whose DOF is below g
OffsetsOf(t, nv) ==
  [g \in 0 .. nv |-> Cardinality({p \in Workers : Decode(t[p]) < g})]

\* position of pair p in the indices array
IndexPos(t, nv, p) ==
  OffsetsOf(t, nv)[Decode(t[p])]
    + Cardinality({q \in 0 .. p - 1 : Decode(t[q]) = Decode(t[p])})

\* indices[n]: the signed E-vector index stored at n
IndicesOf(t, nv) ==
  [n \in Workers |->
     LET p == CHOOSE p \in Workers : IndexPos(t, nv, p) = n
     IN  IF t[p] >= 0 THEN p ELSE -1 - p]

-----------------------------------------------------------------------------
(***************************************************************************)
(* The inputs of one assembly.                                             *)
(***************************************************************************)
\* Gather maps: every global DOF below nvdof is referenced, DOFs are numbered
\* in the order the elements meet them, and an orientation flag (negative
\* encoding) may sit on the first slot of the last element.
NumDofs(t) == Cardinality({Decode(t[p]) : p \in Workers})

GatherMaps ==
  { t \in [Workers -> (-NV) .. (NV - 1)] :
      /\ \A p \in Workers :
           Decode(t[p]) <= Cardinality({Decode(t[q]) : q \in 0 .. p - 1})
      /\ \A p \in Workers : t[p] < 0 => p = ND * (NE - 1) }

\* Sparsity templates: each row's non-absent column slots are distinct.
Templates ==
  { m \in [0 .. NNZ * ND - 1 -> (-1) .. (ND - 1)] :
      \A r \in 0 .. ND - 1 : \A j1, j2 \in 0 .. NNZ - 1 :
         (j1 # j2 /\ MapAt(m, j1, r) >= 0) => MapAt(m, j1, r) # MapAt(m, j2, r) }

\* Value tensors: distinct powers of two, so that a sum names its summands.
ValueTensors == { [n \in 0 .. NNZ * ND * NE - 1 |-> 2 ^ n] }

-----------------------------------------------------------------------------
(***************************************************************************)
(* Worker-local values of the two kernels, for worker i (an (element, row  *)
(* slot) pair) at nonzero slot j.                                          *)
(***************************************************************************)
\* ii_el = i % ndof_per_el
RowSlot(i) == i % ND

\* iel_ho = i / ndof_per_el
ElemOf(i) == i \div ND

\* sii = el_dof_lex(ii_el, iel_ho)
SignedRow(i) == ElDofLex(el_dof_lex, RowSlot(i), ElemOf(i))

\* ii: LDOF index of the current row
RowDof(i) == Decode(SignedRow(i))

\* jj_el = map(j, ii_el)
ColSlot(i, j) == MapAt(map, j, RowSlot(i))

\* sjj = el_dof_lex(jj_el, iel_ho)
SignedCol(i, j) == ElDofLex(el_dof_lex, ColSlot(i, j), ElemOf(i))

\* jj: LDOF index of the column
ColDof(i, j) == Decode(SignedCol(i, j))

\* i_ne / j_ne: length of the incidence list of DOF g
NumElts(g) == K[g + 1] - K[g]

\* i_elts / j_elts: the elements of the incidence list of DOF g
EltsOf(g) ==
  [e \in 0 .. NumElts(g) - 1 |-> Decode(dof_glob2loc[K[g] + e]) \div ND]

\* i_B / j_B: the local slots of the incidence list of DOF g, encoded with sign
SlotsOf(g) ==
  [e \in 0 .. NumElts(g) - 1 |->
     LET s == dof_glob2loc[K[g] + e]
         b == Decode(s) % ND
     IN  IF s >= 0 THEN b ELSE -1 - b]

RECURSIVE GetMinEltLoop(_, _, _, _, _, _)
GetMinEltLoop(my_elts, nbElts, nbr_elts, nbrNbElts, i, min_el) ==
  IF i >= nbElts THEN min_el
  ELSE LET e_i == my_elts[i]
       IN  IF e_i >= min_el
             THEN GetMinEltLoop(my_elts, nbElts, nbr_elts, nbrNbElts, i + 1, min_el)
             ELSE IF \E j \in 0 .. nbrNbElts - 1 : e_i = nbr_elts[j]
                    THEN GetMinEltLoop(my_elts, nbElts, nbr_elts, nbrNbElts, i + 1, e_i)
                    ELSE GetMinEltLoop(my_elts, nbElts, nbr_elts, nbrNbElts, i + 1, min_el)

\* The minimal element index found in both lists, INT_MAX when there is none.
GetMinElt(my_elts, nbElts, nbr_elts, nbrNbElts) ==
  GetMinEltLoop(my_elts, nbElts, nbr_elts, nbrNbElts, 0, INT_MAX)

\* min_e of worker i at slot j
MinE(i, j) ==
  GetMinElt(EltsOf(RowDof(i)), NumElts(RowDof(i)),
            EltsOf(ColDof(i, j)), NumElts(ColDof(i, j)))

\* FillI with the election dropped: every element asserting a pair counts it.
FillI_Adds_NoElection(i, j) == ColSlot(i, j) >= 0

\* FillI: iteration j of worker i executes AtomicAdd(I[ii], 1)
FillI_Adds(i, j) ==
  /\ ColSlot(i, j) >= 0
  /\ IF NumElts(RowDof(i)) = 1 \/ NumElts(ColDof(i, j)) = 1
       THEN TRUE
       ELSE ElemOf(i) = MinE(i, j)

\* FillJAndData: iteration j of worker i claims an index and writes an entry
FillJ_Writes(i, j) ==
  /\ ColSlot(i, j) >= 0
  /\ IF NumElts(RowDof(i)) = 1 \/ NumElts(ColDof(i, j)) = 1
       THEN TRUE
       ELSE ElemOf(i) = MinE(i, j)

\* The loop over j of worker i, run from j0 up to its next iteration that
\* executes the AtomicAdd of FillI (NNZ: the loop ends without one).  The
\* iterations passed over read only the inputs.
NextAdd(i, j0) ==
  IF \E j \in j0 .. NNZ - 1 : FillI_Adds(i, j)
    THEN CHOOSE j \in j0 .. NNZ - 1 :
           FillI_Adds(i, j) /\ \A j1 \in j0 .. j - 1 : ~FillI_Adds(i, j1)
    ELSE NNZ

\* The same for the fill kernel and its GetAndIncrementNnzIndex.
NextWrite(i, j0) ==
  IF \E j \in j0 .. NNZ - 1 : FillJ_Writes(i, j)
    THEN CHOOSE j \in j0 .. NNZ - 1 :
           FillJ_Writes(i, j) /\ \A j1 \in j0 .. j - 1 : ~FillJ_Writes(i, j1)
    ELSE NNZ

\* sgn: +1 when both signed indices have the same sign
Sgn(a, b) == IF (a >= 0 /\ b >= 0) \/ (a < 0 /\ b < 0) THEN 1 ELSE -1

\* j2: the first m with map(m, ii_el_2) == jj_el_2, -1 when there is none
FindNonzero(ii_el_2, jj_el_2) ==
  IF \E m \in 0 .. NNZ - 1 : MapAt(map, m, ii_el_2) = jj_el_2
    THEN CHOOSE m \in 0 .. NNZ - 1 :
           /\ MapAt(map, m, ii_el_2) = jj_el_2
           /\ \A m0 \in 0 .. m - 1 : MapAt(map, m0, ii_el_2) # jj_el_2
    ELSE -1

\* The loops over k and l of the conflict branch: val after them.
RECURSIVE AccumLoop(_, _, _, _, _, _)
AccumLoop(ii, jj, k, l, val, g) ==
  IF k >= NumElts(ii) THEN val
  ELSE IF l >= NumElts(jj) THEN AccumLoop(ii, jj, k + 1, 0, val, g)
  ELSE IF EltsOf(ii)[k] = EltsOf(jj)[l]
         THEN LET iel_ho_2 == EltsOf(ii)[k]
                  sii_el_2 == SlotsOf(ii)[k]
                  ii_el_2  == Decode(sii_el_2)
                  sjj_el_2 == SlotsOf(jj)[l]
                  jj_el_2  == Decode(sjj_el_2)
                  sgn_2    == Sgn(sjj_el_2, sii_el_2)
                  j2       == FindNonzero(ii_el_2, jj_el_2)
              IN  AccumLoop(ii, jj, k, l + 1,
                            val + sgn_2 * ReadV(V, j2, ii_el_2, iel_ho_2, g), g)
         ELSE AccumLoop(ii, jj, k, l + 1, val, g)

\* The direct branch without the orientation sign
FillJ_Val_NoSign(i, j, g) ==
  IF NumElts(RowDof(i)) = 1 \/ NumElts(ColDof(i, j)) = 1
    THEN ReadV(V, j, RowSlot(i), ElemOf(i), g)
    ELSE AccumLoop(RowDof(i), ColDof(i, j), 0, 0, 0, g)

\* The value worker i stores at iteration j
FillJ_Val(i, j, g) ==
  IF NumElts(RowDof(i)) = 1 \/ NumElts(ColDof(i, j)) = 1
    THEN Sgn(SignedCol(i, j), SignedRow(i)) * ReadV(V, j, RowSlot(i), ElemOf(i), g)
    ELSE AccumLoop(RowDof(i), ColDof(i, j), 0, 0, 0, g)

\* The scan with the counter added before the store: an inclusive sum.
RECURSIVE ScanLoop_Inclusive(_, _, _)
ScanLoop_Inclusive(h_I, i, sum) ==
  IF i >= nvdof THEN [h_I EXCEPT ![nvdof] = sum]
  ELSE ScanLoop_Inclusive([h_I EXCEPT ![i] = sum + h_I[i]], i + 1, sum + h_I[i])

\* The sequential scan of FillI: h_I after the loop and the final store
RECURSIVE ScanLoop(_, _, _)
ScanLoop(h_I, i, sum) ==
  IF i >= nvdof THEN [h_I EXCEPT ![nvdof] = sum]
  ELSE ScanLoop([h_I EXCEPT ![i] = sum], i + 1, sum + h_I[i])

\* Per row, the set of (col, value) pairs of a CSR matrix
RowsOf(i_, j_, a_) ==
  [r \in 0 .. nvdof - 1 |-> {<<j_[n], a_[n]>> : n \in i_[r] .. i_[r + 1] - 1}]

-----------------------------------------------------------------------------
(***************************************************************************)
(* SparseIJToCSR: the state after AssemblyKernel() has filled sparse_ij    *)
(* and sparse_mapping and A.I has been allocated (not yet initialised).    *)
(***************************************************************************)
NoArray == [n \in {} |-> 0]

\* The other entry points are not running
NoAux ==
  /\ lists = NoArray
  /\ form = NoArray
  /\ own = NoArray
  /\ handle = NoArray

\* No domain runs ParAssemble
NoParAssemble ==
  /\ identity = TRUE
  /\ par_ess_dofs = NoArray
  /\ diag = NoArray
  /\ offd = NoArray
  /\ col_map_offd = NoArray
  /\ send_map_elmts = NoArray
  /\ eliminate_row = NoArray
  /\ eliminate_col = NoArray
  /\ int_buf_data = NoArray
  /\ cols_to_eliminate = NoArray
  /\ ppc = NoArray
  /\ net = NoArray
  /\ recvd = NoArray

FreshI == [r \in 0 .. nvdof |-> -1]

Init ==
  /\ el_dof_lex \in GatherMaps
  /\ nvdof = NumDofs(el_dof_lex)
  /\ K = OffsetsOf(el_dof_lex, nvdof)
  /\ dof_glob2loc = IndicesOf(el_dof_lex, nvdof)
  /\ map \in Templates
  /\ V \in ValueTensors
  /\ pc = "zero"
  /\ I = FreshI
  /\ J = NoArray
  /\ AV = NoArray
  /\ nnzRet = 0
  /\ Icur = NoArray
  /\ wpc = [i \in Workers |-> 0]
  /\ rowcount = NoArray
  /\ counted = {}
  /\ wrote = {}
  /\ wcount = NoArray
  /\ oob = FALSE
  /\ run = 1
  /\ prevI = NoArray
  /\ prevRows = NoArray
  /\ ess_dofs = NoArray
  /\ epc = NoArray
  /\ A0 = NoArray
  /\ NoParAssemble
  /\ writer = NoArray
  /\ NoAux

\* MFEM_FORALL(ii, nvdof + 1, I[ii] = 0;)
FillI_Zero ==
  /\ pc = "zero"
  /\ I' = [r \in 0 .. nvdof |-> 0]
  /\ wpc' = [i \in Workers |-> NextAdd(i, 0)]
  /\ pc' = "count"
  /\ UNCHANGED << inputs, J, AV, nnzRet, Icur, rowcount, counted, wrote,
                  wcount, oob, run, prevI, prevRows, writer >>
  /\ UNCHANGED << elimvars, parvars, auxvars >>

\* The second assembly runs on the host backend, where MFEM_FORALL is a
\* sequential loop over i; the first runs its workers in any interleaving.
MayRun(i) == run = 1 \/ \A i0 \in 0 .. i - 1 : wpc[i0] = NNZ

\* Worker i of the counting kernel executes its next AtomicAdd(I[ii], 1)
FillI_Step(i) ==
  /\ pc = "count"
  /\ wpc[i] < NNZ
  /\ MayRun(i)
  /\ I' = [I EXCEPT ![RowDof(i)] = @ + 1]
  /\ counted' = counted \cup {<<i, wpc[i]>>}
  /\ wpc' = [wpc EXCEPT ![i] = NextAdd(i, @ + 1)]
  /\ UNCHANGED << pc, inputs, J, AV, nnzRet, Icur, rowcount, wrote, wcount,
                  oob, run, prevI, prevRows, writer >>
  /\ UNCHANGED << elimvars, parvars, auxvars >>

\* The host scan started without waiting for the end of the kernel
FillI_Scan_NoBarrier ==
  /\ pc = "count"
  /\ rowcount' = [r \in 0 .. nvdof - 1 |-> I[r]]
  /\ I' = ScanLoop(I, 0, 0)
  /\ nnzRet' = I'[nvdof]
  /\ pc' = "alloc"
  /\ UNCHANGED << inputs, J, AV, Icur, wpc, counted, wrote, wcount, oob, run,
                  prevI, prevRows, writer >>
  /\ UNCHANGED << elimvars, parvars, auxvars >>

\* The kernel has ended; the host loop sums the entries of I and FillI
\* returns h_I[nvdof].
FillI_Scan ==
  /\ pc = "count"
  /\ \A i \in Workers : wpc[i] = NNZ
  /\ rowcount' = [r \in 0 .. nvdof - 1 |-> I[r]]
  /\ I' = ScanLoop(I, 0, 0)
  /\ nnzRet' = I'[nvdof]
  /\ pc' = "alloc"
  /\ UNCHANGED << inputs, J, AV, Icur, wpc, counted, wrote, wcount, oob, run,
                  prevI, prevRows, writer >>
  /\ UNCHANGED << elimvars, parvars, auxvars >>

\* GetMemoryJ().New(nnz), GetMemoryData().New(nnz)
SparseIJToCSR_New ==
  /\ pc = "alloc"
  /\ J' = [n \in 0 .. nnzRet - 1 |-> -1]
  /\ AV' = [n \in 0 .. nnzRet - 1 |-> 0]
  /\ wcount' = [n \in 0 .. nnzRet - 1 |-> 0]
  /\ writer' = [n \in 0 .. nnzRet - 1 |-> << >>]
  /\ pc' = "copyI"
  /\ UNCHANGED << inputs, I, nnzRet, Icur, wpc, rowcount, counted, wrote, oob,
                  run, prevI, prevRows >>
  /\ UNCHANGED << elimvars, parvars, auxvars >>

\* Copy A.I into I_, the temporary buffer of write cursors
FillJ_CopyI ==
  /\ pc = "copyI"
  /\ Icur' = [r \in 0 .. nvdof |-> I[r]]
  /\ wpc' = [i \in Workers |-> NextWrite(i, 0)]
  /\ pc' = "fill"
  /\ UNCHANGED << inputs, I, J, AV, nnzRet, rowcount, counted, wrote, wcount,
                  oob, run, prevI, prevRows, writer >>
  /\ UNCHANGED << elimvars, parvars, auxvars >>

\* The claim that hands out the start of the row, whatever the cursor
GetAndIncrementNnzIndex_RowStart(i_L, cur) == I[i_L]

\* int ind = AtomicAdd(I[i_L], 1): the index claimed
GetAndIncrementNnzIndex(i_L, cur) == cur[i_L]

\* The fill kernel with the cursors kept in A.I itself
FillJ_Step_CursorInI(i) ==
  /\ pc = "fill"
  /\ wpc[i] < NNZ
  /\ MayRun(i)
  /\ \E g \in Garbage :
       LET j == wpc[i]
           nnz == GetAndIncrementNnzIndex(RowDof(i), I)
       IN  /\ I' = [I EXCEPT ![RowDof(i)] = @ + 1]
           /\ wrote' = wrote \cup {<<i, j>>}
           /\ IF nnz \in DOMAIN J
                THEN /\ J' = [J EXCEPT ![nnz] = ColDof(i, j)]
                     /\ AV' = [AV EXCEPT ![nnz] = FillJ_Val(i, j, g)]
                     /\ wcount' = [wcount EXCEPT ![nnz] = @ + 1]
                     /\ writer' = [writer EXCEPT ![nnz] = <<i, j>>]
                     /\ oob' = oob
                ELSE /\ oob' = TRUE
                     /\ UNCHANGED << J, AV, wcount, writer >>
  /\ wpc' = [wpc EXCEPT ![i] = NextWrite(i, @ + 1)]
  /\ UNCHANGED << pc, inputs, Icur, nnzRet, rowcount, counted, run, prevI, prevRows >>
  /\ UNCHANGED << elimvars, parvars, auxvars >>

\* Worker i of the fill kernel claims its next index and writes the entry
FillJ_Step(i) ==
  /\ pc = "fill"
  /\ wpc[i] < NNZ
  /\ MayRun(i)
  /\ \E g \in Garbage :
       LET j == wpc[i]
           nnz == GetAndIncrementNnzIndex(RowDof(i), Icur)
       IN  /\ Icur' = [Icur EXCEPT ![RowDof(i)] = @ + 1]
           /\ wrote' = wrote \cup {<<i, j>>}
           /\ IF nnz \in DOMAIN J
                THEN /\ J' = [J EXCEPT ![nnz] = ColDof(i, j)]
                     /\ AV' = [AV EXCEPT ![nnz] = FillJ_Val(i, j, g)]
                     /\ wcount' = [wcount EXCEPT ![nnz] = @ + 1]
                     /\ writer' = [writer EXCEPT ![nnz] = <<i, j>>]
                     /\ oob' = oob
                ELSE /\ oob' = TRUE
                     /\ UNCHANGED << J, AV, wcount, writer >>
  /\ wpc' = [wpc EXCEPT ![i] = NextWrite(i, @ + 1)]
  /\ UNCHANGED << pc, inputs, I, nnzRet, rowcount, counted, run, prevI, prevRows >>
  /\ UNCHANGED << elimvars, parvars, auxvars >>

\* The fill kernel has ended: SparseIJToCSR returns
FillJ_End ==
  /\ pc = "fill"
  /\ \A i \in Workers : wpc[i] = NNZ
  /\ pc' = "done"
  /\ UNCHANGED << inputs, I, J, AV, nnzRet, Icur, wpc, rowcount, counted, wrote,
                  wcount, oob, run, prevI, prevRows, writer >>
  /\ UNCHANGED << elimvars, parvars, auxvars >>

\* AssembleWithoutBC is called again with the same inputs: A.I is allocated
\* anew and the first result is kept for comparison.
Reassemble ==
  /\ pc = "done"
  /\ run = 1
  /\ run' = 2
  /\ prevI' = I
  /\ prevRows' = RowsOf(I, J, AV)
  /\ pc' = "zero"
  /\ I' = FreshI
  /\ J' = NoArray
  /\ AV' = NoArray
  /\ nnzRet' = 0
  /\ Icur' = NoArray
  /\ wpc' = [i \in Workers |-> 0]
  /\ rowcount' = NoArray
  /\ counted' = {}
  /\ wrote' = {}
  /\ wcount' = NoArray
  /\ writer' = NoArray
  /\ oob' = FALSE
  /\ UNCHANGED inputs
  /\ UNCHANGED << elimvars, parvars, auxvars >>

Next ==
  \/ FillI_Zero
  \/ \E i \in Workers : FillI_Step(i)
  \/ FillI_Scan
  \/ SparseIJToCSR_New
  \/ FillJ_CopyI
  \/ \E i \in Workers : FillJ_Step(i)
  \/ FillJ_End
  \/ Reassemble

Spec == Init /\ [][Next]_vars

-----------------------------------------------------------------------------
(***************************************************************************)
(* Assemble (serial): AssembleWithoutBC, then the elimination of the       *)
(* essential DOFs, one MFEM_FORALL worker per entry of ess_dofs.           *)
(***************************************************************************)
\* ess_dofs: arrays of DOFs below n, without repetition
EssArrays(n) ==
  { a \in UNION {[0 .. k - 1 -> 0 .. n - 1] : k \in 0 .. n} :
      \A x, y \in DOMAIN a : x < y => a[x] < a[y] }

\* The scan of row jdof without the test of the column: its first entry
FindCounterpart_NoColumnTest(i_, j_, jdof, idof) ==
  IF i_[jdof] < i_[jdof + 1] THEN i_[jdof] ELSE -1

\* The scan of row jdof that stops at the last entry of the row
FindCounterpart_LastOfRow(i_, j_, jdof, idof) ==
  IF i_[jdof] < i_[jdof + 1] THEN i_[jdof + 1] - 1 ELSE -1

\* for (k = I[jdof]; k < I[jdof+1]; ++k) if (J[k] == idof) { ...; break; }
\* the k at which the loop breaks, -1 when it runs to its end
FindCounterpart(i_, j_, jdof, idof) ==
  IF \E k \in i_[jdof] .. i_[jdof + 1] - 1 : j_[k] = idof
    THEN CHOOSE k \in i_[jdof] .. i_[jdof + 1] - 1 :
           j_[k] = idof /\ \A k0 \in i_[jdof] .. k - 1 : j_[k0] # idof
    ELSE -1

\* dA[n] = 0.0, for n an index of dA
ZeroAt(dA, n) == IF n \in DOMAIN dA THEN [dA EXCEPT ![n] = 0] ELSE dA

\* The body of the loop over j of the serial elimination: dA after it
EliminateEntry(i_, j_, dA, idof, j) ==
  LET jdof == j_[j]
  IN  IF jdof # idof
        THEN ZeroAt(ZeroAt(dA, j), FindCounterpart(i_, j_, jdof, idof))
        ELSE dA

\* The matrix is assembled; the elimination kernel is launched
Assemble_Begin ==
  /\ pc = "done"
  /\ \E a \in EssArrays(nvdof) :
       /\ ess_dofs' = a
       /\ epc' = [i \in DOMAIN a |-> I[a[i]]]
  /\ A0' = AV
  /\ pc' = "elim"
  /\ UNCHANGED << inputs, I, J, nnzRet, Icur, wpc, rowcount, counted, wrote,
                  wcount, oob, run, prevI, prevRows, AV, writer, parvars, auxvars >>

\* Worker i of the elimination kernel runs one iteration of its loop over j
Assemble_Step(i) ==
  /\ pc = "elim"
  /\ i \in DOMAIN ess_dofs
  /\ epc[i] < I[ess_dofs[i] + 1]
  /\ AV' = EliminateEntry(I, J, AV, ess_dofs[i], epc[i])
  /\ epc' = [epc EXCEPT ![i] = @ + 1]
  /\ UNCHANGED << pc, inputs, I, J, nnzRet, Icur, wpc, rowcount, counted, wrote,
                  wcount, oob, run, prevI, prevRows, ess_dofs, A0, writer, parvars, auxvars >>

\* The elimination kernel has ended: Assemble returns
Assemble_End ==
  /\ pc = "elim"
  /\ \A i \in DOMAIN ess_dofs : epc[i] = I[ess_dofs[i] + 1]
  /\ pc' = "eliminated"
  /\ UNCHANGED << inputs, I, J, AV, nnzRet, Icur, wpc, rowcount, counted, wrote,
                  wcount, oob, run, prevI, prevRows, elimvars, writer, parvars, auxvars >>

NextAssemble ==
  \/ FillI_Zero
  \/ \E i \in Workers : FillI_Step(i)
  \/ FillI_Scan
  \/ SparseIJToCSR_New
  \/ FillJ_CopyI
  \/ \E i \in Workers : FillJ_Step(i)
  \/ FillJ_End
  \/ Assemble_Begin
  \/ \E i \in 0 .. NV - 1 : Assemble_Step(i)
  \/ Assemble_End

SpecAssemble == Init /\ [][NextAssemble]_vars

-----------------------------------------------------------------------------
(***************************************************************************)
(* ParAssemble: the elimination of the essential DOFs of a distributed     *)
(* matrix on two domains.  Each domain holds a diagonal block (its own     *)
(* rows and columns) and an off-diagonal block whose column c stands for   *)
(* DOF col_map_offd[c] of the other domain.                                *)
(***************************************************************************)
\* rows (and columns) of the diagonal block of a domain
NLoc == 2

\* largest number of stored entries of a row of a block
MaxRowLen == 2

Domains == {0, 1}

Peer(p) == 1 - p

LocalDofs == 0 .. NLoc - 1

\* arrays over vals of at most maxlen entries
ArraysOver(vals, maxlen) == UNION {[0 .. k - 1 -> vals] : k \in 0 .. maxlen}

\* an array holds no value twice
Distinct(a) == \A x, y \in DOMAIN a : x # y => a[x] # a[y]

\* an array is strictly increasing
Increasing(a) == \A x, y \in DOMAIN a : x < y => a[x] < a[y]

ArrayLen(a) == Cardinality(DOMAIN a)

RECURSIVE LenBelow(_, _)
LenBelow(rows, r) ==
  IF r = 0 THEN 0 ELSE LenBelow(rows, r - 1) + ArrayLen(rows[r - 1])

\* The CSR arrays of a block given by its rows, with the values d0 + n
CsrOf(rows, d0) ==
  LET i_ == [r \in 0 .. NLoc |-> LenBelow(rows, r)]
      rowOf(n) == CHOOSE r \in LocalDofs : i_[r] <= n /\ n < i_[r + 1]
  IN  [ i    |-> i_,
        j    |-> [n \in 0 .. i_[NLoc] - 1 |-> rows[rowOf(n)][n - i_[rowOf(n)]]],
        data |-> [n \in 0 .. i_[NLoc] - 1 |-> d0 + n] ]

\* The values of the blocks before the elimination: none is 0 or 1
DiagBase(p) == 10 * (p + 1)

OffdBase(p) == 100 * (p + 1)

\* Diagonal blocks.  With the identity prolongation the block is the locally
\* assembled matrix, any CSR matrix the assembly can produce (a row may hold
\* a column twice); otherwise it is a block of the product P^t A P, whose
\* rows hold no column twice.  Domain 1 holds a full block.
DiagRows(id, p) ==
  IF p = 1
    THEN { [r \in LocalDofs |-> [n \in 0 .. 1 |-> (r + n) % NLoc]] }
    ELSE { rows \in [LocalDofs -> ArraysOver(LocalDofs, MaxRowLen)] :
             id \/ \A r \in LocalDofs : Distinct(rows[r]) }

\* The DOFs of the peer behind the off-diagonal columns: none with the
\* identity prolongation (the matrix is block diagonal).
ColMaps(id, p) ==
  IF id THEN {NoArray}
  ELSE IF p = 1 THEN { [c \in {0} |-> NLoc - 1] }
  ELSE { a \in ArraysOver(LocalDofs, MaxRowLen) : Increasing(a) }

\* Off-diagonal blocks over ncols columns: increasing rows, every column used
OffdRows(ncols, p) ==
  IF ncols = 0 THEN { [r \in LocalDofs |-> NoArray] }
  ELSE IF p = 1 THEN { [r \in LocalDofs |-> IF r = 0 THEN [c \in {0} |-> 0] ELSE NoArray] }
  ELSE { rows \in [LocalDofs -> { a \in ArraysOver(0 .. ncols - 1, MaxRowLen) : Increasing(a) }] :
           \A c \in 0 .. ncols - 1 : \E r \in LocalDofs : \E n \in DOMAIN rows[r] :
              rows[r][n] = c }

\* The state when every domain enters the elimination of ParAssemble
InitPar ==
  /\ identity \in BOOLEAN
  /\ \E dr \in [Domains -> UNION {DiagRows(identity, p) : p \in Domains}] :
       /\ \A p \in Domains : dr[p] \in DiagRows(identity, p)
       /\ diag = [p \in Domains |-> CsrOf(dr[p], DiagBase(p))]
  /\ col_map_offd \in [Domains -> UNION {ColMaps(identity, p) : p \in Domains}]
  /\ \A p \in Domains : col_map_offd[p] \in ColMaps(identity, p)
  /\ \E orw \in [Domains -> UNION {OffdRows(ArrayLen(col_map_offd[p]), p) : p \in Domains}] :
       /\ \A p \in Domains : orw[p] \in OffdRows(ArrayLen(col_map_offd[p]), p)
       /\ offd = [p \in Domains |-> CsrOf(orw[p], OffdBase(p))]
  /\ send_map_elmts = [p \in Domains |-> col_map_offd[Peer(p)]]
  /\ par_ess_dofs \in [Domains -> EssArrays(NLoc)]
  /\ eliminate_row = [p \in Domains |-> NoArray]
  /\ eliminate_col = [p \in Domains |-> NoArray]
  /\ int_buf_data = [p \in Domains |-> NoArray]
  /\ cols_to_eliminate = [p \in Domains |-> NoArray]
  /\ ppc = [p \in Domains |-> "start"]
  /\ net = [p \in Domains |-> << >>]
  /\ recvd = [p \in Domains |-> FALSE]
  /\ pc = "par"
  /\ el_dof_lex = NoArray
  /\ nvdof = 0
  /\ K = NoArray
  /\ dof_glob2loc = NoArray
  /\ map = NoArray
  /\ V = NoArray
  /\ I = NoArray
  /\ J = NoArray
  /\ AV = NoArray
  /\ nnzRet = 0
  /\ Icur = NoArray
  /\ wpc = NoArray
  /\ rowcount = NoArray
  /\ counted = {}
  /\ wrote = {}
  /\ wcount = NoArray
  /\ oob = FALSE
  /\ run = 1
  /\ prevI = NoArray
  /\ prevRows = NoArray
  /\ ess_dofs = NoArray
  /\ epc = NoArray
  /\ A0 = NoArray
  /\ writer = NoArray
  /\ NoAux

\* eliminate_row after the two loops that fill it
EliminateRowMask(ess) ==
  [i \in LocalDofs |-> IF \E e \in DOMAIN ess : ess[e] = i THEN 1 ELSE 0]

\* The send buffer filled from the mask of another index: row[j] for row[k]
SendBuffer_WrongIndex(smap, row) ==
  [index \in DOMAIN smap |-> row[index]]

\* int_buf_data after the loops over the sends:
\* k = SendMapElmt(j); int_buf_data[index++] = eliminate_row[k]
SendBuffer(smap, row) ==
  [index \in DOMAIN smap |-> row[smap[index]]]

\* The exchange is started without posting the send of the mask
Par_Begin_NoSend(p) ==
  /\ pc = "par"
  /\ ppc[p] = "start"
  /\ eliminate_row' = [eliminate_row EXCEPT ![p] = EliminateRowMask(par_ess_dofs[p])]
  /\ eliminate_col' = [eliminate_col EXCEPT ![p] = [c \in DOMAIN col_map_offd[p] |-> 0]]
  /\ int_buf_data' = [int_buf_data EXCEPT ![p] = SendBuffer(send_map_elmts[p], eliminate_row'[p])]
  /\ net' = net
  /\ ppc' = [ppc EXCEPT ![p] = "diag"]
  /\ UNCHANGED << identity, par_ess_dofs, diag, offd, col_map_offd, send_map_elmts,
                  cols_to_eliminate, recvd, asmvars, elimvars, auxvars >>

\* Domain p allocates and fills its masks and its send buffer, and starts
\* the exchange: hypre_ParCSRCommHandleCreate(11, ...) posts its receive
\* and its send.
Par_Begin(p) ==
  /\ pc = "par"
  /\ ppc[p] = "start"
  /\ eliminate_row' = [eliminate_row EXCEPT ![p] = EliminateRowMask(par_ess_dofs[p])]
  /\ eliminate_col' = [eliminate_col EXCEPT ![p] = [c \in DOMAIN col_map_offd[p] |-> 0]]
  /\ int_buf_data' = [int_buf_data EXCEPT ![p] = SendBuffer(send_map_elmts[p], eliminate_row'[p])]
  /\ net' = IF ArrayLen(send_map_elmts[p]) > 0
              THEN [net EXCEPT ![Peer(p)] = Append(@, int_buf_data'[p])]
              ELSE net
  /\ ppc' = [ppc EXCEPT ![p] = "diag"]
  /\ UNCHANGED << identity, par_ess_dofs, diag, offd, col_map_offd, send_map_elmts,
                  cols_to_eliminate, recvd, asmvars, elimvars, auxvars >>

\* The message sent to domain p arrives in the buffer of its posted receive
Par_Deliver(p) ==
  /\ pc = "par"
  /\ ppc[p] # "start"
  /\ net[p] # << >>
  /\ eliminate_col' = [eliminate_col EXCEPT ![p] = Head(net[p])]
  /\ net' = [net EXCEPT ![p] = Tail(@)]
  /\ recvd' = [recvd EXCEPT ![p] = TRUE]
  /\ UNCHANGED << identity, par_ess_dofs, diag, offd, col_map_offd, send_map_elmts,
                  eliminate_row, int_buf_data, cols_to_eliminate, ppc, asmvars,
                  elimvars, auxvars >>

\* The loop over j of the diagonal-block elimination of idof: data after it
RECURSIVE ParDiagRow(_, _, _, _)
ParDiagRow(dg, data, idof, j) ==
  IF j >= dg.i[idof + 1] THEN data
  ELSE LET jdof == dg.j[j]
       IN  IF jdof = idof
             THEN ParDiagRow(dg, [data EXCEPT ![j] = 1], idof, j + 1)
             ELSE ParDiagRow(dg,
                    ZeroAt(ZeroAt(data, j), FindCounterpart(dg.i, dg.j, jdof, idof)),
                    idof, j + 1)

\* MFEM_HYPRE_FORALL(i, n_ess_dofs, ...) over the diagonal block
RECURSIVE ParDiagLoop(_, _, _, _)
ParDiagLoop(dg, ess, data, i) ==
  IF i >= ArrayLen(ess) THEN data
  ELSE ParDiagLoop(dg, ess, ParDiagRow(dg, data, ess[i], dg.i[ess[i]]), i + 1)

\* Domain p eliminates rows and columns in its diagonal block
Par_ElimDiag(p) ==
  /\ pc = "par"
  /\ ppc[p] = "diag"
  /\ diag' = [diag EXCEPT ![p].data = ParDiagLoop(diag[p], par_ess_dofs[p], @, 0)]
  /\ ppc' = [ppc EXCEPT ![p] = "offd_rows"]
  /\ UNCHANGED << identity, par_ess_dofs, offd, col_map_offd, send_map_elmts,
                  eliminate_row, eliminate_col, int_buf_data, cols_to_eliminate,
                  net, recvd, asmvars, elimvars, auxvars >>

\* MFEM_HYPRE_FORALL(i, n_ess_dofs, ...) over the rows of the off-diagonal block
OffdRowsZeroed(od, ess) ==
  [n \in DOMAIN od.data |->
     IF \E i \in DOMAIN ess : od.i[ess[i]] <= n /\ n < od.i[ess[i] + 1]
       THEN 0 ELSE od.data[n]]

\* The cols_to_eliminate are set without waiting for the exchange
PcAfterOffdRows_NoWait == "cols"

\* What follows the elimination of the off-diagonal rows: the wait
PcAfterOffdRows == "wait"

\* The rows are zeroed in the column array instead of the value array
Par_ElimOffdRows_WritesJ(p) ==
  /\ pc = "par"
  /\ ppc[p] = "offd_rows"
  /\ offd' = [offd EXCEPT ![p].j =
                [n \in DOMAIN offd[p].j |->
                   OffdRowsZeroed([offd[p] EXCEPT !.data = offd[p].j],
                                  par_ess_dofs[p])[n]]]
  /\ ppc' = [ppc EXCEPT ![p] = PcAfterOffdRows]
  /\ UNCHANGED << identity, par_ess_dofs, diag, col_map_offd, send_map_elmts,
                  eliminate_row, eliminate_col, int_buf_data, cols_to_eliminate,
                  net, recvd, asmvars, elimvars, auxvars >>

\* Domain p eliminates the rows of its off-diagonal block
Par_ElimOffdRows(p) ==
  /\ pc = "par"
  /\ ppc[p] = "offd_rows"
  /\ offd' = [offd EXCEPT ![p].data = OffdRowsZeroed(offd[p], par_ess_dofs[p])]
  /\ ppc' = [ppc EXCEPT ![p] = PcAfterOffdRows]
  /\ UNCHANGED << identity, par_ess_dofs, diag, col_map_offd, send_map_elmts,
                  eliminate_row, eliminate_col, int_buf_data, cols_to_eliminate,
                  net, recvd, asmvars, elimvars, auxvars >>

\* The requests of the handle of domain p are complete: its receive (if it
\* expects one) has been filled; its send buffer may be reused.
HandleComplete(p) == ArrayLen(col_map_offd[p]) = 0 \/ recvd[p]

\* hypre_ParCSRCommHandleDestroy(comm_handle) returns
Par_Wait(p) ==
  /\ pc = "par"
  /\ ppc[p] = "wait"
  /\ HandleComplete(p)
  /\ ppc' = [ppc EXCEPT ![p] = "cols"]
  /\ UNCHANGED << identity, par_ess_dofs, diag, offd, col_map_offd, send_map_elmts,
                  eliminate_row, eliminate_col, int_buf_data, cols_to_eliminate,
                  net, recvd, asmvars, elimvars, auxvars >>

\* cols_to_eliminate after the two loops over eliminate_col
ColsToEliminate(ecol) ==
  LET marked == {i \in DOMAIN ecol : ecol[i] # 0}
  IN  [n \in 0 .. Cardinality(marked) - 1 |->
         CHOOSE i \in marked : Cardinality({i0 \in marked : i0 < i}) = n]

\* Domain p sets the array cols_to_eliminate (the buffers it then frees are
\* kept here as history)
Par_SetCols(p) ==
  /\ pc = "par"
  /\ ppc[p] = "cols"
  /\ cols_to_eliminate' = [cols_to_eliminate EXCEPT ![p] = ColsToEliminate(eliminate_col[p])]
  /\ ppc' = [ppc EXCEPT ![p] = "offd_cols"]
  /\ UNCHANGED << identity, par_ess_dofs, diag, offd, col_map_offd, send_map_elmts,
                  eliminate_row, eliminate_col, int_buf_data, net, recvd,
                  asmvars, elimvars, auxvars >>

\* MFEM_HYPRE_FORALL(idx, ncols_to_eliminate, ...): in every row, the first
\* entry of each column to eliminate is zeroed
OffdColsZeroed(od, cols) ==
  [n \in DOMAIN od.data |->
     IF \E idx \in DOMAIN cols : \E i \in LocalDofs :
          n = FindCounterpart(od.i, od.j, i, cols[idx])
       THEN 0 ELSE od.data[n]]

\* Domain p eliminates the columns of its off-diagonal block and returns
Par_ElimOffdCols(p) ==
  /\ pc = "par"
  /\ ppc[p] = "offd_cols"
  /\ offd' = [offd EXCEPT ![p].data = OffdColsZeroed(offd[p], cols_to_eliminate[p])]
  /\ ppc' = [ppc EXCEPT ![p] = "done"]
  /\ UNCHANGED << identity, par_ess_dofs, diag, col_map_offd, send_map_elmts,
                  eliminate_row, eliminate_col, int_buf_data, cols_to_eliminate,
                  net, recvd, asmvars, elimvars, auxvars >>

NextPar ==
  \/ \E p \in Domains : Par_Begin(p)
  \/ \E p \in Domains : Par_Deliver(p)
  \/ \E p \in Domains : Par_ElimDiag(p)
  \/ \E p \in Domains : Par_ElimOffdRows(p)
  \/ \E p \in Domains : Par_Wait(p)
  \/ \E p \in Domains : Par_SetCols(p)
  \/ \E p \in Domains : Par_ElimOffdCols(p)

SpecPar == InitPar /\ [][NextPar]_vars

-----------------------------------------------------------------------------
(***************************************************************************)
(* The elimination of the essential DOFs on both paths: the serial         *)
(* Assemble and ParAssemble.                                               *)
(***************************************************************************)
InitEliminate == Init \/ InitPar

NextEliminate ==
  \/ FillI_Zero
  \/ \E i \in Workers : FillI_Step(i)
  \/ FillI_Scan
  \/ SparseIJToCSR_New
  \/ FillJ_CopyI
  \/ \E i \in Workers : FillJ_Step(i)
  \/ FillJ_End
  \/ Assemble_Begin
  \/ \E i \in 0 .. NV - 1 : Assemble_Step(i)
  \/ Assemble_End
  \/ \E p \in Domains : Par_Begin(p)
  \/ \E p \in Domains : Par_Deliver(p)
  \/ \E p \in Domains : Par_ElimDiag(p)
  \/ \E p \in Domains : Par_ElimOffdRows(p)
  \/ \E p \in Domains : Par_Wait(p)
  \/ \E p \in Domains : Par_SetCols(p)
  \/ \E p \in Domains : Par_ElimOffdCols(p)

SpecEliminate == InitEliminate /\ [][NextEliminate]_vars

-----------------------------------------------------------------------------
(***************************************************************************)
(* What the elements assert, read off the inputs alone.                    *)
(***************************************************************************)
Triples == Workers \X (0 .. NNZ - 1)

\* Element ElemOf(i) asserts an entry through slot j of its row slot
Asserts(i, j) == ColSlot(i, j) >= 0

\* The global (row, col) pair the triple asserts
PairOf(i, j) == <<RowDof(i), ColDof(i, j)>>

AssertedPairs == {PairOf(x[1], x[2]) : x \in {y \in Triples : Asserts(y[1], y[2])}}

AssertingTriples(r, c) ==
  {x \in Triples : Asserts(x[1], x[2]) /\ PairOf(x[1], x[2]) = <<r, c>>}

\* The local value of a triple times its orientation sign
Contribution(i, j) ==
  Sgn(SignedCol(i, j), SignedRow(i)) * V[VIndex(j, RowSlot(i), ElemOf(i))]

RECURSIVE SumContributions(_)
SumContributions(S) ==
  IF S = {} THEN 0
  ELSE LET x == CHOOSE y \in S : TRUE
       IN  Contribution(x[1], x[2]) + SumContributions(S \ {x})

\* Indices of row r of A that hold column c
EntriesOf(r, c) == {n \in I[r] .. I[r + 1] - 1 : J[n] = c}

RECURSIVE SumBelow(_, _)
SumBelow(cnt, r) == IF r = 0 THEN 0 ELSE SumBelow(cnt, r - 1) + cnt[r - 1]

Scanned == pc \in {"alloc", "copyI", "fill", "done"}

Allocated == pc \in {"copyI", "fill", "done"}

\* No element appears twice in the incidence list of a DOF
NoRepeat ==
  \A g \in 0 .. nvdof - 1 : \A a, b \in 0 .. NumElts(g) - 1 :
     a # b => EltsOf(g)[a] # EltsOf(g)[b]

\* Every element holding both DOFs of an asserted pair asserts it
Consistent ==
  \A p \in AssertedPairs : \A q1, q2 \in Workers :
     (Decode(el_dof_lex[q1]) = p[1] /\ Decode(el_dof_lex[q2]) = p[2]
        /\ ElemOf(q1) = ElemOf(q2))
       => \E j \in 0 .. NNZ - 1 : MapAt(map, j, RowSlot(q1)) = RowSlot(q2)

-----------------------------------------------------------------------------
(***************************************************************************)
(* C1: after AssembleWithoutBC, every (row, col) pair asserted by at least *)
(* one element has exactly one entry in the CSR output, and its value is   *)
(* the sum over all elements asserting the pair of the local value times   *)
(* the orientation sign.                                                   *)
(***************************************************************************)
C1_OneEntryWithSummedValue ==
  pc = "done" =>
    \A p \in AssertedPairs :
       /\ Cardinality(EntriesOf(p[1], p[2])) = 1
       /\ \A n \in EntriesOf(p[1], p[2]) :
            AV[n] = SumContributions(AssertingTriples(p[1], p[2]))

\* On tables where no element holds a DOF twice and every element holding
\* both DOFs of an asserted pair asserts it, the assembly does what C1 says.
C1_HoldsOnRegularInputs ==
  (NoRepeat /\ Consistent) => C1_OneEntryWithSummedValue

(***************************************************************************)
(* C2: in every assembled matrix the column indices of a row,              *)
(* J[I[r]] .. J[I[r+1]-1], are pairwise distinct.                          *)
(***************************************************************************)
C2_DistinctColumnsInRow ==
  pc = "done" =>
    \A r \in 0 .. nvdof - 1 : \A n1, n2 \in I[r] .. I[r + 1] - 1 :
       n1 # n2 => J[n1] # J[n2]

\* Where no element holds a DOF twice, the columns of a row are distinct.
C2_HoldsWithoutRepeatedElement == NoRepeat => C2_DistinctColumnsInRow

C4_CounterIsDistinctColumns ==
  Scanned =>
    \A r \in 0 .. nvdof - 1 :
       rowcount[r] = Cardinality({p \in AssertedPairs : p[1] = r})

\* The counter is right on the tables of C1_HoldsOnRegularInputs.
C4_HoldsOnRegularInputs ==
  (NoRepeat /\ Consistent) => C4_CounterIsDistinctColumns

(***************************************************************************)
(* C5: the slot budget of FillI is exactly sufficient for FillJAndData: a  *)
(* triple increments a counter in FillI iff it writes an entry in          *)
(* FillJAndData; during the fill pass the cursor of row r stays within     *)
(* [I[r], I[r+1]], so every index claimed lies in the row's slice and in   *)
(* the arrays; when the pass ends every cursor equals I[r+1] and every     *)
(* slot has been written.                                                  *)
(***************************************************************************)
C5_BudgetExactlySufficient ==
  /\ pc \in {"fill", "done"} =>
       /\ wrote \subseteq counted
       /\ \A r \in 0 .. nvdof - 1 : I[r] <= Icur[r] /\ Icur[r] <= I[r + 1]
       /\ ~oob
  /\ pc = "done" =>
       /\ wrote = counted
       /\ \A r \in 0 .. nvdof - 1 : Icur[r] = I[r + 1]
       /\ \A n \in DOMAIN J : wcount[n] >= 1

\* C5 witness: a finished fill pass in which an element wrote an entry through
\* the election and another element asserting a pair was not elected
C5_Witness ==
  /\ pc = "done"
  /\ \E x \in wrote :
       NumElts(RowDof(x[1])) > 1 /\ NumElts(ColDof(x[1], x[2])) > 1
  /\ \E x \in Triples : Asserts(x[1], x[2]) /\ x \notin wrote
  /\ \E r \in 0 .. nvdof - 1 : I[r + 1] - I[r] >= 2

(***************************************************************************)
(* C6: assembly is deterministic up to the order within a row: two runs on *)
(* identical inputs produce the same I and, per row, the same set of       *)
(* (col, value) pairs.                                                     *)
(***************************************************************************)
C6_SameResultTwice ==
  (run = 2 /\ pc = "done") => (I = prevI /\ RowsOf(I, J, AV) = prevRows)

\* Where no element holds a DOF twice, two assemblies agree.
C6_HoldsWithoutRepeatedElement == NoRepeat => C6_SameResultTwice

\* Row r of A stores no column twice
NoDuplicateColumn ==
  \A r \in 0 .. nvdof - 1 : \A n1, n2 \in I[r] .. I[r + 1] - 1 :
     n1 # n2 => J[n1] # J[n2]

\* (r, c) is stored iff (c, r) is
SymmetricPattern ==
  \A r, c \in 0 .. nvdof - 1 : (EntriesOf(r, c) = {}) <=> (EntriesOf(c, r) = {})

\* The essential DOFs, as a set
EssSet == {ess_dofs[i] : i \in DOMAIN ess_dofs}

(***************************************************************************)
(* C7: after the serial Assemble, for every essential DOF d, every stored  *)
(* entry (d, j) with j # d and every stored entry (i, d) with i # d is     *)
(* zero, and the stored diagonal (d, d) has the value the assembly         *)
(* produced; for every assembled sparsity pattern.                         *)
(***************************************************************************)
C7_RowAndColumnZeroDiagonalKept ==
  pc = "eliminated" =>
    \A d \in EssSet : \A r \in 0 .. nvdof - 1 : \A n \in I[r] .. I[r + 1] - 1 :
       /\ (r = d /\ J[n] # d) => AV[n] = 0
       /\ (r # d /\ J[n] = d) => AV[n] = 0
       /\ (r = d /\ J[n] = d) => AV[n] = A0[n]

\* On a symmetric pattern without a repeated column the elimination zeroes
\* the rows and the columns of the essential DOFs and keeps their diagonals.
C7_HoldsOnSymmetricPattern ==
  (pc = "eliminated" /\ NoDuplicateColumn /\ SymmetricPattern)
    => C7_RowAndColumnZeroDiagonalKept

\* Whatever the pattern, the rows of the essential DOFs are zeroed, their
\* diagonals kept, and no entry outside their rows and columns changes.
C7_RowsZeroedOthersKept ==
  pc = "eliminated" =>
    \A r \in 0 .. nvdof - 1 : \A n \in I[r] .. I[r + 1] - 1 :
       /\ (r \in EssSet /\ J[n] # r) => AV[n] = 0
       /\ (r \in EssSet /\ J[n] = r) => AV[n] = A0[n]
       /\ (r \notin EssSet /\ J[n] \notin EssSet) => AV[n] = A0[n]

-----------------------------------------------------------------------------
(***************************************************************************)
(* The distributed elimination, read off the inputs.                       *)
(***************************************************************************)
\* The essential DOFs of domain p, as a set
ParEssSet(p) == {par_ess_dofs[p][i] : i \in DOMAIN par_ess_dofs[p]}

\* The indices of row r of a block
RowIndices(b, r) == b.i[r] .. b.i[r + 1] - 1

\* No row of the diagonal block of domain p stores a column twice
DiagNoDuplicateColumn(p) ==
  \A r \in LocalDofs : \A n1, n2 \in RowIndices(diag[p], r) :
     n1 # n2 => diag[p].j[n1] # diag[p].j[n2]

\* Domain p has passed the wait for its exchange
PastWait(p) == ppc[p] \in {"cols", "offd_cols", "done"}

(***************************************************************************)
(* C8: after ParAssemble on a domain, for every locally-owned essential    *)
(* DOF d: in the diagonal block the stored (d, d) is 1, every other stored *)
(* entry (d, j) of row d is zero and so is every stored (j, d); in the     *)
(* off-diagonal block every stored entry of row d is zero.                 *)
(***************************************************************************)
C8_EssentialRowsOfBothBlocks ==
  \A p \in Domains : ppc[p] = "done" =>
    \A d \in ParEssSet(p) :
       /\ \A n \in RowIndices(diag[p], d) :
            IF diag[p].j[n] = d
              THEN diag[p].data[n] = 1
              ELSE /\ diag[p].data[n] = 0
                   /\ \A m \in RowIndices(diag[p], diag[p].j[n]) :
                        diag[p].j[m] = d => diag[p].data[m] = 0
       /\ \A n \in RowIndices(offd[p], d) : offd[p].data[n] = 0

\* C8 holds on every domain whose diagonal block stores no column twice in a row
C8_HoldsWithoutDuplicateColumn ==
  (\A p \in Domains : DiagNoDuplicateColumn(p)) => C8_EssentialRowsOfBothBlocks

(***************************************************************************)
(* C9: once every domain has finished ParAssemble, for every domain p and  *)
(* every off-diagonal column c of p: eliminate_col[c] as received by p is  *)
(* nonzero iff the owner of the DOF behind c marked it essential in its    *)
(* eliminate_row mask; every stored off-diagonal entry of p in such a      *)
(* column is zero; the entries in the other columns and in non-essential   *)
(* rows keep their assembled values.                                       *)
(***************************************************************************)
C9_RemoteEssentialColumns ==
  (\A p \in Domains : ppc[p] = "done") =>
    \A p \in Domains : \A c \in DOMAIN col_map_offd[p] :
       /\ (eliminate_col[p][c] # 0)
            <=> (col_map_offd[p][c] \in ParEssSet(Peer(p)))
       /\ (eliminate_col[p][c] # 0)
            <=> (eliminate_row[Peer(p)][col_map_offd[p][c]] # 0)
       /\ \A r \in LocalDofs : \A n \in RowIndices(offd[p], r) :
            offd[p].j[n] = c =>
              IF eliminate_col[p][c] # 0
                THEN offd[p].data[n] = 0
                ELSE r \notin ParEssSet(p) => offd[p].data[n] = OffdBase(p) + n

\* C9 witness: every domain has finished; a domain learned that one of its
\* columns is essential and zeroed an entry of it in a non-essential row,
\* and kept an entry of a column that is not
C9_Witness ==
  /\ \A p \in Domains : ppc[p] = "done"
  /\ \E p \in Domains : \E c1, c2 \in DOMAIN col_map_offd[p] :
       /\ eliminate_col[p][c1] # 0
       /\ eliminate_col[p][c2] = 0
       /\ \E r \in LocalDofs \ ParEssSet(p) : \E n1, n2 \in RowIndices(offd[p], r) :
            /\ offd[p].j[n1] = c1 /\ offd[p].data[n1] = 0
            /\ offd[p].j[n2] = c2 /\ offd[p].data[n2] # 0

(***************************************************************************)
(* C10: the exchange is a synchronization point.  On every domain, in      *)
(* every interleaving: eliminate_col is not read and no off-diagonal       *)
(* column is eliminated before the exchange handle of the domain is        *)
(* complete, and what is read then is the whole mask the peer sent; the    *)
(* send buffer is filled from the complete eliminate_row mask before the   *)
(* exchange starts; while the exchange is pending the domain is at the     *)
(* diagonal-block elimination, the off-diagonal-row elimination or the     *)
(* wait.                                                                   *)
(***************************************************************************)
C10_ExchangeIsSynchronizationPoint ==
  \A p \in Domains :
     /\ PastWait(p) => (ArrayLen(col_map_offd[p]) = 0 \/ recvd[p])
     /\ PastWait(p) =>
          eliminate_col[p] =
            [c \in DOMAIN col_map_offd[p] |->
               EliminateRowMask(par_ess_dofs[Peer(p)])[col_map_offd[p][c]]]
     /\ ppc[p] # "start" =>
          /\ eliminate_row[p] = EliminateRowMask(par_ess_dofs[p])
          /\ int_buf_data[p] =
               [index \in DOMAIN send_map_elmts[p] |->
                  EliminateRowMask(par_ess_dofs[p])[send_map_elmts[p][index]]]
     /\ \A n \in DOMAIN net[Peer(p)] :
          ppc[p] # "start" /\ net[Peer(p)][n] = int_buf_data[p]
     /\ ~PastWait(p) =>
          /\ cols_to_eliminate[p] = NoArray
          /\ \A r \in LocalDofs \ ParEssSet(p) : \A n \in RowIndices(offd[p], r) :
               offd[p].data[n] = OffdBase(p) + n
     /\ (ppc[p] # "start" /\ ArrayLen(col_map_offd[p]) > 0 /\ ~recvd[p]) =>
          ppc[p] \in {"diag", "offd_rows", "wait"}

\* C10 witness: a domain has passed its wait with the received mask and
\* eliminated a column, while its peer has not yet received its own message
\* and is still at local elimination work
C10_Witness ==
  \E p \in Domains :
     /\ ppc[p] = "done"
     /\ recvd[p]
     /\ ArrayLen(cols_to_eliminate[p]) > 0
     /\ ~recvd[Peer(p)]
     /\ net[Peer(p)] # << >>
     /\ ppc[Peer(p)] \in {"diag", "offd_rows", "wait"}

(***************************************************************************)
(* C11: the elimination of the essential DOFs (serial Assemble, and the    *)
(* diagonal and off-diagonal steps of ParAssemble) leaves the dimensions,  *)
(* the row offsets I and the column indices J of the matrix unchanged:     *)
(* only entries of the value array are written.                            *)
(***************************************************************************)
C11_EliminationKeepsPattern ==
  [][ /\ pc \in {"done", "elim"} =>
           /\ nvdof' = nvdof
           /\ I' = I
           /\ J' = J
           /\ DOMAIN AV' = DOMAIN AV
      /\ pc = "par" =>
           \A p \in Domains :
              /\ diag'[p].i = diag[p].i
              /\ diag'[p].j = diag[p].j
              /\ DOMAIN diag'[p].data = DOMAIN diag[p].data
              /\ offd'[p].i = offd[p].i
              /\ offd'[p].j = offd[p].j
              /\ DOMAIN offd'[p].data = DOMAIN offd[p].data
              /\ col_map_offd'[p] = col_map_offd[p] ]_vars

\* C11 witness: the serial elimination has ended and has written values
C11_Witness ==
  /\ pc = "eliminated"
  /\ \E n \in DOMAIN AV : AV[n] # A0[n]

(***************************************************************************)
(* C12: the elimination touches only essential rows and columns: every     *)
(* stored entry (i, j) with neither i nor j essential has, during and      *)
(* after the elimination, the value it had before, in the serial path and  *)
(* in the diagonal block of the distributed path.                          *)
(***************************************************************************)
C12_OtherEntriesKeepValue ==
  /\ pc \in {"elim", "eliminated"} =>
       \A r \in 0 .. nvdof - 1 : \A n \in I[r] .. I[r + 1] - 1 :
          (r \notin EssSet /\ J[n] \notin EssSet) => AV[n] = A0[n]
  /\ pc = "par" =>
       \A p \in Domains : \A r \in LocalDofs : \A n \in RowIndices(diag[p], r) :
          (r \notin ParEssSet(p) /\ diag[p].j[n] \notin ParEssSet(p))
            => diag[p].data[n] = DiagBase(p) + n

\* C12 witness: the serial elimination has ended, it has zeroed an entry,
\* and a nonzero entry outside the essential rows and columns is stored
C12_Witness ==
  /\ pc = "eliminated"
  /\ \E n \in DOMAIN AV : AV[n] # A0[n]
  /\ \E r \in (0 .. nvdof - 1) \ EssSet : \E n \in I[r] .. I[r + 1] - 1 :
       J[n] \notin EssSet /\ A0[n] # 0

-----------------------------------------------------------------------------
\* The per-worker element lists of FillI and FillJAndData.
\*
\* Each worker keeps the elements of its row DOF in i_elts (and their slots
\* in i_B), and for a shared column the elements of the column DOF in j_elts
\* (and j_B).  The arrays are declared with Max entries; the loops that fill
\* them run to i_ne, j_ne: the lengths of the incidence lists.

\* static constexpr int Max = 16
Max == 16

\* Largest incidence list length of the inputs
MaxDeg == 18

ListNames == {"i_elts", "i_B", "j_elts", "j_B"}

\* Neither the assembly nor an elimination is running
NoAssembly(tag) ==
  /\ pc = tag
  /\ el_dof_lex = NoArray
  /\ nvdof = 0
  /\ K = NoArray
  /\ dof_glob2loc = NoArray
  /\ map = NoArray
  /\ V = NoArray
  /\ I = NoArray
  /\ J = NoArray
  /\ AV = NoArray
  /\ nnzRet = 0
  /\ Icur = NoArray
  /\ wpc = NoArray
  /\ rowcount = NoArray
  /\ counted = {}
  /\ wrote = {}
  /\ wcount = NoArray
  /\ oob = FALSE
  /\ run = 1
  /\ prevI = NoArray
  /\ prevRows = NoArray
  /\ writer = NoArray
  /\ ess_dofs = NoArray
  /\ epc = NoArray
  /\ A0 = NoArray

\* A worker of either kernel about to read the incidence list of its row DOF
InitLists ==
  /\ NoAssembly("lists")
  /\ NoParAssemble
  /\ form = NoArray
  /\ own = NoArray
  /\ handle = NoArray
  /\ \E kernel \in {"FillI", "FillJAndData"} : \E ine, jne \in 1 .. MaxDeg :
       lists = [kernel |-> kernel, i_ne |-> ine, j_ne |-> jne, at |-> "i_loop",
                e |-> 0, written |-> [n \in ListNames |-> {}]]

\* The arrays a pass of the loop over e_i (e_j) writes: FillI keeps the
\* elements only, FillJAndData the slots as well
ListsWritten(kernel, elts, slots) ==
  IF kernel = "FillI" THEN {elts} ELSE {elts, slots}

\* x_elts[e] = ...; x_B[e] = ...: the index is not compared with Max
WriteLists(w, names, e) ==
  [n \in ListNames |-> IF n \in names THEN w[n] \cup {e} ELSE w[n]]

\* for (int e_i = 0; e_i < i_ne; ++e_i) { i_elts[e_i] = ...; i_B[e_i] = ... }
Lists_WriteI ==
  /\ pc = "lists"
  /\ lists.at = "i_loop"
  /\ lists.e < lists.i_ne
  /\ lists' = [lists EXCEPT
                 !.written = WriteLists(@, ListsWritten(lists.kernel, "i_elts", "i_B"), lists.e),
                 !.e = @ + 1]
  /\ UNCHANGED << asmvars, elimvars, parvars, form, own, handle >>

\* if (i_ne == 1 || j_ne == 1): no list of the column is built
Lists_EndI ==
  /\ pc = "lists"
  /\ lists.at = "i_loop"
  /\ lists.e = lists.i_ne
  /\ lists' = [lists EXCEPT
                 !.at = IF lists.i_ne = 1 \/ lists.j_ne = 1 THEN "done" ELSE "j_loop",
                 !.e = 0]
  /\ UNCHANGED << asmvars, elimvars, parvars, form, own, handle >>

\* for (int e_j = 0; e_j < j_ne; ++e_j) { j_elts[e_j] = ...; j_B[e_j] = ... }
Lists_WriteJ ==
  /\ pc = "lists"
  /\ lists.at = "j_loop"
  /\ lists.e < lists.j_ne
  /\ lists' = [lists EXCEPT
                 !.written = WriteLists(@, ListsWritten(lists.kernel, "j_elts", "j_B"), lists.e),
                 !.e = @ + 1]
  /\ UNCHANGED << asmvars, elimvars, parvars, form, own, handle >>

\* const int min_e = GetMinElt(i_elts, i_ne, j_elts, j_ne)
Lists_EndJ ==
  /\ pc = "lists"
  /\ lists.at = "j_loop"
  /\ lists.e = lists.j_ne
  /\ lists' = [lists EXCEPT !.at = "done"]
  /\ UNCHANGED << asmvars, elimvars, parvars, form, own, handle >>

\* A write past the end of an array of Max entries is undefined: the worker
\* may carry on over its own stack, or the process may stop there.
Lists_Fault ==
  /\ pc = "lists"
  /\ lists.at \in {"i_loop", "j_loop"}
  /\ \E n \in ListNames : \E k \in lists.written[n] : k >= Max
  /\ lists' = [lists EXCEPT !.at = "fault"]
  /\ UNCHANGED << asmvars, elimvars, parvars, form, own, handle >>

NextLists ==
  \/ Lists_WriteI
  \/ Lists_EndI
  \/ Lists_WriteJ
  \/ Lists_EndJ
  \/ Lists_Fault

SpecLists == InitLists /\ [][NextLists]_vars

\* C13: the bound of 16 on the incidence list length is asserted: no
\* per-worker list (i_elts, j_elts, i_B, j_B) is ever written at an index
\* >= 16, and a DOF with more than 16 (element, slot) pairs stops the kernel
\* before any access.
C13_NoWriteBeyondMax ==
  pc = "lists" =>
    /\ \A n \in ListNames : \A k \in lists.written[n] : k < Max
    /\ lists.i_ne > Max => \A n \in ListNames : lists.written[n] = {}

\* Within the bound the lists are written below Max only
C13_HoldsWithinBound ==
  (pc = "lists" /\ lists.i_ne <= Max /\ lists.j_ne <= Max) =>
    \A n \in ListNames : \A k \in lists.written[n] : k < Max

-----------------------------------------------------------------------------
\* FormIsSupported and the static entry point Assemble.
\*
\* A form is given by what the two functions read of it: whether its space
\* uses a tensor basis, the kind of its collection, and the array of its
\* domain integrators (GetDBFI(): NULL or a list of integrators).  The
\* callers pass the space of the form as fes_ho.

MaxIntegs == 3

FecKinds == {"H1", "ND", "RT", "L2"}

IntegKinds == {"Diffusion", "Mass", "CurlCurl", "VectorFEMass", "DivDiv", "Convection"}

\* Array<BilinearFormIntegrator*> *integs = a.GetDBFI(): a null pointer, or
\* the array
IntegArrays ==
  {[null |-> TRUE, array |-> << >>]} \cup
  {[null |-> FALSE, array |-> s] : s \in UNION {[1 .. n -> IntegKinds] : n \in 0 .. MaxIntegs}}

\* template <typename T1, typename T2> bool HasIntegrators(BilinearForm &a)
HasIntegrators(integs, T1, T2) ==
  IF integs.null THEN FALSE
  ELSE IF Len(integs.array) = 1 THEN integs.array[1] = T1 \/ integs.array[1] = T2
  ELSE IF Len(integs.array) = 2
    THEN \/ integs.array[1] = T1 /\ integs.array[2] = T2
         \/ integs.array[1] = T2 /\ integs.array[2] = T1
  ELSE FALSE

\* bool BatchedLORAssembly::FormIsSupported(BilinearForm &a)
FormIsSupported(a) ==
  IF ~a.tensor THEN FALSE
  ELSE IF a.fec = "H1" THEN HasIntegrators(a.integs, "Diffusion", "Mass")
  ELSE IF a.fec = "ND" THEN HasIntegrators(a.integs, "CurlCurl", "VectorFEMass")
  ELSE IF a.fec = "RT" THEN HasIntegrators(a.integs, "DivDiv", "VectorFEMass")
  ELSE FALSE

\* The assemblies the static Assemble runs: BatchedLOR_H1 / _ND / _RT
\* (...).Assemble(A), or none.  UsesTensorBasis is not consulted.
AssembliesRun(a) ==
  IF a.fec = "H1"
    THEN IF HasIntegrators(a.integs, "Diffusion", "Mass") THEN << "BatchedLOR_H1" >> ELSE << >>
  ELSE IF a.fec = "ND"
    THEN IF HasIntegrators(a.integs, "CurlCurl", "VectorFEMass") THEN << "BatchedLOR_ND" >> ELSE << >>
  ELSE IF a.fec = "RT"
    THEN IF HasIntegrators(a.integs, "DivDiv", "VectorFEMass") THEN << "BatchedLOR_RT" >> ELSE << >>
  ELSE << >>

InitForm ==
  /\ NoAssembly("form")
  /\ NoParAssemble
  /\ lists = NoArray
  /\ own = NoArray
  /\ handle = NoArray
  /\ \E tensor \in BOOLEAN : \E fec \in FecKinds : \E integs \in IntegArrays :
       form = [tensor |-> tensor, fec |-> fec, integs |-> integs,
               checked |-> "no", at |-> "call", ran |-> << >>]

\* The caller asks FormIsSupported(a)
Form_IsSupported ==
  /\ pc = "form"
  /\ form.checked = "no"
  /\ form' = [form EXCEPT !.checked = IF FormIsSupported(form) THEN "yes" ELSE "unsupported"]
  /\ UNCHANGED << asmvars, elimvars, parvars, lists, own, handle >>

\* void BatchedLORAssembly::Assemble(a, fes_ho, ess_dofs, A): the function
\* returns nothing, whichever branch it took
Form_Assemble ==
  /\ pc = "form"
  /\ form.at = "call"
  /\ form' = [form EXCEPT !.ran = AssembliesRun(form), !.at = "returned"]
  /\ UNCHANGED << asmvars, elimvars, parvars, lists, own, handle >>

NextForm ==
  \/ Form_IsSupported
  \/ Form_Assemble

SpecForm == InitForm /\ [][NextForm]_vars

\* C14: an unsupported combination is rejected before any assembly runs:
\* when FormIsSupported(a) is false the static Assemble runs no assembly
\* (and reports "not supported": the function returns void, so the formula
\* states the part about the assemblies only), and when it is true exactly
\* one kind-specific assembly is run.
C14_UnsupportedRunsNothing ==
  (pc = "form" /\ form.at = "returned") =>
    IF FormIsSupported(form)
      THEN Len(form.ran) = 1
      ELSE form.ran = << >>

\* A supported form runs exactly the assembly of its collection kind
C14_SupportedRunsItsKind ==
  (pc = "form" /\ form.at = "returned" /\ FormIsSupported(form)) =>
    form.ran = << IF form.fec = "H1" THEN "BatchedLOR_H1"
                  ELSE IF form.fec = "ND" THEN "BatchedLOR_ND" ELSE "BatchedLOR_RT" >>

\* On tensor-basis spaces an unsupported form runs no assembly
C14_TensorUnsupportedRunsNothing ==
  (pc = "form" /\ form.at = "returned" /\ form.tensor /\ ~FormIsSupported(form)) =>
    form.ran = << >>

-----------------------------------------------------------------------------
\* HypreStealOwnership: the identity-prolongation path of ParAssemble.
\*
\* A Memory object is a pointer with the flag OwnsHostPtr.  The local
\* SparseMatrix allocated its three arrays itself (SparseIJToCSR) and owns
\* them.  The diagonal block of the distributed matrix was built from the
\* local matrix: each of its Memory objects is either an alias of the local
\* array that does not own it, or an array of its own (a copy, which a
\* HYPRE_BIGINT build always makes of I and J).  The owner flags of the
\* distributed matrix say which of its Memory objects it deletes: bit 0 for
\* I and J, bit 1 for Data.

Buffers == {"I", "J", "Data"}

Alias == [ptr |-> "local", owns |-> FALSE]

OwnCopy == [ptr |-> "hypre", owns |-> TRUE]

LocalMemory == [ptr |-> "local", owns |-> TRUE]

DiagMemories(bigint) ==
  {m \in [Buffers -> {Alias, OwnCopy}] : bigint => (m["I"] = OwnCopy /\ m["J"] = OwnCopy)}

OwnerFlags == 0 .. 3

InitOwn ==
  /\ NoAssembly("own")
  /\ NoParAssemble
  /\ lists = NoArray
  /\ form = NoArray
  /\ handle = NoArray
  /\ \E bigint, debug \in BOOLEAN : \E m \in DiagMemories(bigint) : \E f \in OwnerFlags :
       own = [bigint |-> bigint, debug |-> debug, at |-> "entry",
              A_diag |-> [b \in Buffers |-> LocalMemory],
              A_hyp |-> m, A_hyp0 |-> m, diagOwner |-> f, swapped |-> {}]

\* std::swap(A_diag.GetMemoryI(), A_hyp.GetDiagMemoryI()): the local matrix
\* keeps m, the distributed one h
SwapMemory(m, h, b) == [A_diag |-> [m EXCEPT ![b] = h[b]], A_hyp |-> [h EXCEPT ![b] = m[b]]]

\* The swap of I without that of J
StealIJ_OnlyI(m, h) ==
  SwapMemory(m, h, "I")

\* std::swap of I and of J
StealIJ(m, h) ==
  SwapMemory(SwapMemory(m, h, "I").A_diag, SwapMemory(m, h, "I").A_hyp, "J")

\* own_i, own_j are read and compared: MFEM_ASSERT stops a debug build when
\* they differ and is compiled out otherwise.  With HYPRE_BIGINT the block is
\* not compiled.
Steal_Check ==
  /\ pc = "own"
  /\ own.at = "entry"
  /\ own' = [own EXCEPT !.at =
       IF own.bigint THEN "data"
       ELSE IF own.debug /\ own.A_hyp["I"].owns # own.A_hyp["J"].owns THEN "aborted"
       ELSE "ij"]
  /\ UNCHANGED << asmvars, elimvars, parvars, lists, form, handle >>

\* if (!own_i) { swap I; swap J; }
Steal_IJ ==
  /\ pc = "own"
  /\ own.at = "ij"
  /\ own' = IF ~own.A_hyp["I"].owns
       THEN [own EXCEPT !.A_diag = StealIJ(own.A_diag, own.A_hyp).A_diag,
                        !.A_hyp = StealIJ(own.A_diag, own.A_hyp).A_hyp,
                        !.swapped = @ \cup {"I", "J"},
                        !.at = "data"]
       ELSE [own EXCEPT !.at = "data"]
  /\ UNCHANGED << asmvars, elimvars, parvars, lists, form, handle >>

\* if (!A_hyp.GetDiagMemoryData().OwnsHostPtr()) { swap Data; }
Steal_Data ==
  /\ pc = "own"
  /\ own.at = "data"
  /\ own' = IF ~own.A_hyp["Data"].owns
       THEN [own EXCEPT !.A_diag = SwapMemory(own.A_diag, own.A_hyp, "Data").A_diag,
                        !.A_hyp = SwapMemory(own.A_diag, own.A_hyp, "Data").A_hyp,
                        !.swapped = @ \cup {"Data"},
                        !.at = "flags"]
       ELSE [own EXCEPT !.at = "flags"]
  /\ UNCHANGED << asmvars, elimvars, parvars, lists, form, handle >>

\* A_hyp.SetOwnerFlags(3, A_hyp.OwnsOffd(), A_hyp.OwnsColMap())
Steal_SetOwnerFlags ==
  /\ pc = "own"
  /\ own.at = "flags"
  /\ own' = [own EXCEPT !.diagOwner = 3, !.at = "done"]
  /\ UNCHANGED << asmvars, elimvars, parvars, lists, form, handle >>

NextOwn ==
  \/ Steal_Check
  \/ Steal_IJ
  \/ Steal_Data
  \/ Steal_SetOwnerFlags

SpecOwn == InitOwn /\ [][NextOwn]_vars

\* The distributed matrix deletes the array behind its Memory object
HypOwns(b) ==
  /\ own.A_hyp[b].owns
  /\ IF b = "Data" THEN own.diagOwner \in {2, 3} ELSE own.diagOwner \in {1, 3}

\* The local SparseMatrix deletes the array behind its Memory object
LocalOwns(b) == own.A_diag[b].owns

\* The owners of the array ptr of kind b
OwnersOf(b, ptr) ==
  {w \in {"A_hyp", "A_diag"} :
     /\ own[w][b].ptr = ptr
     /\ IF w = "A_hyp" THEN HypOwns(b) ELSE LocalOwns(b)}

\* The arrays of kind b that exist: the local one, and the copy if one was made
ArraysOf(b) == {"local"} \cup {own.A_hyp0[b].ptr}

\* What the claim states of the three buffers after the transfer
OwnershipTransferred ==
  \A b \in Buffers :
    /\ HypOwns(b)
    /\ OwnersOf(b, own.A_hyp[b].ptr) = {"A_hyp"}
    /\ own.A_hyp0[b].owns => b \notin own.swapped
    /\ \A ptr \in ArraysOf(b) : Cardinality(OwnersOf(b, ptr)) = 1

\* C15 (as stated): after HypreStealOwnership each of the diagonal block's I,
\* J and Data is owned by the distributed matrix and by nobody else, a
\* buffer the distributed matrix already owned is not swapped, and no array
\* has two owners or none, in any combination of initial ownership flags.
C15_OneOwnerForAnyFlags ==
  (pc = "own" /\ own.at = "done") => OwnershipTransferred

\* C15 (amended): the same, in any combination of initial ownership flags in
\* which those of I and J agree; the function asserts their agreement, in
\* debug builds only.
C15_OneOwnerForConsistentFlags ==
  (pc = "own" /\ own.at = "done" /\ own.A_hyp0["I"].owns = own.A_hyp0["J"].owns) =>
    OwnershipTransferred

\* The transfer has swapped all three buffers
C15_Witness ==
  /\ pc = "own" /\ own.at = "done" /\ own.swapped = Buffers
  /\ own.A_hyp0["I"].owns = own.A_hyp0["J"].owns

-----------------------------------------------------------------------------
\* The triples of the direct branch: the row DOF or the column DOF is
\* referenced by a single (element, slot) pair
Direct(i, j) ==
  Asserts(i, j) /\ (NumElts(RowDof(i)) = 1 \/ NumElts(ColDof(i, j)) = 1)

\* The indices of J and Data written for the triple
WrittenFor(i, j) == {n \in DOMAIN writer : writer[n] = <<i, j>>}

\* C16 (as stated): when the incidence list of a DOF has length 1, every
\* entry whose row or column is that DOF is written by the direct branch,
\* without the owner election, and the stored value is the element's
\* unmodified local contribution V(j, row_slot, element).
C16_DirectBranchStoresV ==
  pc = "done" =>
    \A x \in Triples : Direct(x[1], x[2]) =>
      /\ x \in wrote
      /\ \E n \in WrittenFor(x[1], x[2]) :
           /\ J[n] = ColDof(x[1], x[2])
           /\ AV[n] = V[VIndex(x[2], RowSlot(x[1]), ElemOf(x[1]))]

\* C16 (amended): the same, with the stored value equal to the local
\* contribution times the orientation sign: +1 when the signs of the row and
\* column DOFs in the gather map agree, -1 otherwise.
C16_DirectBranchStoresSignedV ==
  pc = "done" =>
    \A x \in Triples : Direct(x[1], x[2]) =>
      /\ x \in wrote
      /\ \E n \in WrittenFor(x[1], x[2]) :
           /\ J[n] = ColDof(x[1], x[2])
           /\ AV[n] = Contribution(x[1], x[2])

\* An entry of the direct branch has been written with the sign -1
C16_Witness ==
  /\ pc = "done"
  /\ \E x \in Triples :
       /\ Direct(x[1], x[2])
       /\ Sgn(SignedCol(x[1], x[2]), SignedRow(x[1])) = -1
       /\ \E n \in WrittenFor(x[1], x[2]) : AV[n] = Contribution(x[1], x[2])

-----------------------------------------------------------------------------
\* Number of triples of S whose row is r
InRow(S, r) == Cardinality({x \in S : RowDof(x[1]) = r})

\* C17: in the fill pass, under every interleaving of the workers, the
\* atomic claim on the row cursor never hands the same index to two writes:
\* every index of J and Data in [0, I[nvdof]) is written exactly once, J[n]
\* and Data[n] are written by the same worker for the same (row, col) pair,
\* inside the row of that pair, and no increment of a counter or cursor is
\* lost.
C17_EverySlotWrittenOnce ==
  /\ pc = "count" => \A r \in 0 .. nvdof - 1 : I[r] = InRow(counted, r)
  /\ pc = "fill" =>
       /\ ~oob
       /\ \A r \in 0 .. nvdof - 1 : Icur[r] = I[r] + InRow(wrote, r)
       /\ \A n \in DOMAIN wcount : wcount[n] <= 1
  /\ pc = "done" =>
       /\ ~oob
       /\ \A r \in 0 .. nvdof - 1 : Icur[r] = I[r + 1]
       /\ \A n \in 0 .. I[nvdof] - 1 :
            /\ wcount[n] = 1
            /\ writer[n] \in wrote
            /\ LET i == writer[n][1]
                   j == writer[n][2]
               IN  /\ n \in I[RowDof(i)] .. I[RowDof(i) + 1] - 1
                   /\ J[n] = ColDof(i, j)
                   /\ \E g \in Garbage : AV[n] = FillJ_Val(i, j, g)

\* Two workers have written into the same row
C17_Witness ==
  /\ pc = "done"
  /\ \E n1, n2 \in DOMAIN writer :
       /\ n1 # n2
       /\ writer[n1][1] # writer[n2][1]
       /\ RowDof(writer[n1][1]) = RowDof(writer[n2][1])

-----------------------------------------------------------------------------
\* The phases of Assemble in the order of the calls: FillI (zero, count and
\* scan), the allocation of J and Data, FillJAndData (copy of I, fill), the
\* elimination kernel
Rank(p) ==
  CASE p = "zero" -> 0
    [] p = "count" -> 1
    [] p = "alloc" -> 2
    [] p = "copyI" -> 3
    [] p = "fill" -> 4
    [] p = "done" -> 5
    [] p = "elim" -> 6
    [] p = "eliminated" -> 7

\* What has run when the assembly is in a phase
PhaseState ==
  /\ Rank(pc) <= 1 => J = NoArray /\ AV = NoArray /\ Icur = NoArray
  /\ Rank(pc) >= 2 => counted = {x \in Triples : FillI_Adds(x[1], x[2])}
  /\ Rank(pc) >= 2 => I = ScanLoop([r \in 0 .. nvdof |-> IF r < nvdof THEN rowcount[r] ELSE 0], 0, 0)
  /\ Rank(pc) >= 3 => DOMAIN J = 0 .. I[nvdof] - 1 /\ DOMAIN AV = 0 .. I[nvdof] - 1
  /\ Rank(pc) <= 3 => wrote = {}
  /\ Rank(pc) >= 5 => wrote = {x \in Triples : FillJ_Writes(x[1], x[2])}
  /\ Rank(pc) <= 5 => epc = NoArray /\ A0 = NoArray
  /\ Rank(pc) >= 6 => A0 \in [DOMAIN AV -> Int]

\* What a step may do in a phase
PhaseStep ==
  /\ inputs' = inputs
  /\ Rank(pc') \in {Rank(pc), Rank(pc) + 1}
  /\ counted' # counted => pc = "count" /\ pc' = "count"
  /\ (pc = "count" /\ pc' # "count") => \A i \in Workers : wpc[i] = NNZ
  /\ I' # I => Rank(pc) <= 1
  /\ wrote' # wrote => pc = "fill" /\ pc' = "fill"
  /\ (J' # J \/ AV' # AV) => pc \in {"alloc", "fill", "elim"}
  /\ (pc = "fill" /\ pc' # "fill") => \A i \in Workers : wpc[i] = NNZ
  /\ J' # J => Rank(pc) <= 4
  /\ epc' # epc => pc \in {"done", "elim"}

\* C18: the phases of one assembly run in a fixed order with a barrier
\* between them: the template and values are complete before any counter
\* increment; all increments of the row-count pass finish before the prefix
\* sum; the prefix sum finishes before J and Data are sized and before any
\* write of the fill pass; every write of the fill pass finishes before any
\* write of the elimination; each pass runs exactly once per assembly.
C18_PhasesInOrder == [] PhaseState /\ [][PhaseStep]_vars

\* The elimination has written after a fill pass of several workers
C18_Witness ==
  /\ pc = "eliminated"
  /\ Cardinality({x[1] : x \in wrote}) >= 2
  /\ \E n \in DOMAIN AV : AV[n] # A0[n]

-----------------------------------------------------------------------------
\* The triples of the conflict branch: both DOFs are referenced more than once
Conflict(i, j) ==
  Asserts(i, j) /\ NumElts(RowDof(i)) # 1 /\ NumElts(ColDof(i, j)) # 1

\* The elements of the incidence list of DOF g, as a set
EltSet(g) == {EltsOf(g)[e] : e \in 0 .. NumElts(g) - 1}

\* The least element holding both DOFs
MinOfIntersection(r, c) ==
  IF EltSet(r) \cap EltSet(c) = {} THEN INT_MAX
  ELSE CHOOSE e \in EltSet(r) \cap EltSet(c) : \A f \in EltSet(r) \cap EltSet(c) : e <= f

\* The elements that found iel == min_e for the pair (r, c) in the fill pass
ElectedFor(r, c) ==
  {ElemOf(x[1]) : x \in AssertingTriples(r, c) \cap wrote}

\* GetMinElt returns the least element present in both lists, and INT_MAX
\* only when the lists share no element
C19_GetMinEltIsMinOfIntersection ==
  \A r, c \in 0 .. nvdof - 1 :
    /\ GetMinElt(EltsOf(r), NumElts(r), EltsOf(c), NumElts(c)) = MinOfIntersection(r, c)
    /\ MinOfIntersection(r, c) = INT_MAX <=> EltSet(r) \cap EltSet(c) = {}

\* In the conflict branch the current element is in both lists, min_e is an
\* element index not above it, and both passes elect the same triples
C19_ElectionIsSound ==
  /\ \A x \in Triples : Conflict(x[1], x[2]) =>
       /\ ElemOf(x[1]) \in EltSet(RowDof(x[1])) \cap EltSet(ColDof(x[1], x[2]))
       /\ MinE(x[1], x[2]) \in 0 .. NE - 1
       /\ MinE(x[1], x[2]) <= ElemOf(x[1])
  /\ pc = "done" => counted = wrote

\* C19: GetMinElt returns the minimum element index present in both lists
\* (INT_MAX only when they share none); in both passes, for every triple
\* that reaches the conflict branch, the current element belongs to both
\* lists, so min_e is a valid element index <= the current element, and for
\* each (row, col) pair exactly one element satisfies iel == min_e; the two
\* passes compute the same min_e.
C19_ExactlyOneElected ==
  /\ C19_GetMinEltIsMinOfIntersection
  /\ C19_ElectionIsSound
  /\ pc = "done" =>
       \A x \in Triples : Conflict(x[1], x[2]) =>
         Cardinality(ElectedFor(RowDof(x[1]), ColDof(x[1], x[2]))) = 1

\* Where every element holding both DOFs of an asserted pair asserts it, the
\* election picks exactly one element
C19_HoldsOnConsistentTemplates == Consistent => C19_ExactlyOneElected

-----------------------------------------------------------------------------
\* The values of j2 that the loops over k and l of an elected triple compute:
\* one for each pair of entries of the two lists with the same element
LookupsOf(i, j) ==
  LET ii == RowDof(i)
      jj == ColDof(i, j)
  IN  {FindNonzero(Decode(SlotsOf(ii)[k]), Decode(SlotsOf(jj)[l])) :
         <<k, l>> \in {y \in (0 .. NumElts(ii) - 1) \X (0 .. NumElts(jj) - 1) :
                         EltsOf(ii)[y[1]] = EltsOf(jj)[y[2]]}}

\* C20: in the conflict branch of the fill pass the reverse lookup always
\* succeeds where its result is used: for every element in both the row
\* DOF's and the column DOF's lists, with slots (r, c), there is a slot m
\* with map(m, r) = c, so the value tensor is never read with slot index -1,
\* for every template and incidence table of the input set.
C20_ReverseLookupSucceeds ==
  (pc \in {"fill", "done"}) =>
    \A x \in wrote : Conflict(x[1], x[2]) => -1 \notin LookupsOf(x[1], x[2])

\* The lookup succeeds where every element holding both DOFs of an asserted
\* pair asserts it
C20_HoldsOnConsistentTemplates == Consistent => C20_ReverseLookupSucceeds

-----------------------------------------------------------------------------
\* SparseIJToCSR and the verification of the element restriction.
\*
\* The caller's handle A holds nothing, an operator of another type, or a
\* SparseMatrix of an earlier assembly, which is then reused.  Of the matrix
\* the model keeps its height and, for each of its three arrays, whether it
\* is absent, the array of the earlier assembly, allocated and not yet
\* written, or written by this assembly.  The space returns the same
\* restriction operator to FillI and to FillJAndData.

\* Largest height of a matrix the handle holds on entry
MaxOld == 3

RestrictionKinds == {"ElementRestriction", "L2ElementRestriction"}

NoMatrix == [height |-> 0, I |-> "absent", J |-> "absent", Data |-> "absent"]

OldMatrices == {[height |-> h, I |-> "old", J |-> "old", Data |-> "old"] : h \in 0 .. MaxOld}

\* What the handle holds on entry, and the matrix behind it
HandlesOnEntry ==
  {[A |-> "nothing", mat |-> NoMatrix], [A |-> "Operator", mat |-> NoMatrix]}
    \cup {[A |-> "SparseMatrix", mat |-> m] : m \in OldMatrices}

InitHandle ==
  /\ NoAssembly("handle")
  /\ NoParAssemble
  /\ lists = NoArray
  /\ form = NoArray
  /\ own = NoArray
  /\ \E h \in HandlesOnEntry : \E n \in 1 .. NV : \E k \in RestrictionKinds :
       handle = [A |-> h.A, mat |-> h.mat, A0 |-> h.A, mat0 |-> h.mat,
                 nvdof |-> n, restr |-> k, at |-> "entry"]

\* MFEM_VERIFY(el_restr != nullptr, "Bad element restriction"): where the
\* caller goes on when the dynamic_cast succeeded
AfterVerify(kind, next) ==
  IF kind = "ElementRestriction" THEN next ELSE "aborted"

\* A_mat = A.Is<SparseMatrix>(); if (!A_mat) { A_mat = new SparseMatrix;
\* A.Reset(A_mat); }
SIJ_Reset ==
  /\ pc = "handle"
  /\ handle.at = "entry"
  /\ handle' = IF handle.A = "SparseMatrix"
       THEN [handle EXCEPT !.at = "size"]
       ELSE [handle EXCEPT !.A = "SparseMatrix", !.mat = NoMatrix, !.at = "size"]
  /\ UNCHANGED << asmvars, elimvars, parvars, lists, form, own >>

\* A_mat->OverrideSize(nvdof, nvdof)
SIJ_OverrideSize ==
  /\ pc = "handle"
  /\ handle.at = "size"
  /\ handle' = [handle EXCEPT !.mat.height = handle.nvdof, !.at = "newI"]
  /\ UNCHANGED << asmvars, elimvars, parvars, lists, form, own >>

\* A_mat->GetMemoryI().New(nvdof+1, ...)
SIJ_NewI ==
  /\ pc = "handle"
  /\ handle.at = "newI"
  /\ handle' = [handle EXCEPT !.mat.I = "allocated", !.at = "FillI"]
  /\ UNCHANGED << asmvars, elimvars, parvars, lists, form, own >>

\* FillI, up to its verification of the restriction
FillI_Verify ==
  /\ pc = "handle"
  /\ handle.at = "FillI"
  /\ handle' = [handle EXCEPT !.at = AfterVerify(handle.restr, "count")]
  /\ UNCHANGED << asmvars, elimvars, parvars, lists, form, own >>

\* FillI after the verification: I is zeroed, counted and scanned
SIJ_FillI ==
  /\ pc = "handle"
  /\ handle.at = "count"
  /\ handle' = [handle EXCEPT !.mat.I = "written", !.at = "newJ"]
  /\ UNCHANGED << asmvars, elimvars, parvars, lists, form, own >>

\* A_mat->GetMemoryJ().New(nnz, ...); A_mat->GetMemoryData().New(nnz, ...)
SIJ_NewJData ==
  /\ pc = "handle"
  /\ handle.at = "newJ"
  /\ handle' = [handle EXCEPT !.mat.J = "allocated", !.mat.Data = "allocated",
                              !.at = "FillJAndData"]
  /\ UNCHANGED << asmvars, elimvars, parvars, lists, form, own >>

\* FillJAndData, up to its verification of the restriction
FillJ_Verify ==
  /\ pc = "handle"
  /\ handle.at = "FillJAndData"
  /\ handle' = [handle EXCEPT !.at = AfterVerify(handle.restr, "fill")]
  /\ UNCHANGED << asmvars, elimvars, parvars, lists, form, own >>

\* FillJAndData after the verification: J and Data are written
SIJ_FillJAndData ==
  /\ pc = "handle"
  /\ handle.at = "fill"
  /\ handle' = [handle EXCEPT !.mat.J = "written", !.mat.Data = "written",
                              !.at = "returned"]
  /\ UNCHANGED << asmvars, elimvars, parvars, lists, form, own >>

NextHandle ==
  \/ SIJ_Reset
  \/ SIJ_OverrideSize
  \/ SIJ_NewI
  \/ FillI_Verify
  \/ SIJ_FillI
  \/ SIJ_NewJData
  \/ FillJ_Verify
  \/ SIJ_FillJAndData

SpecHandle == InitHandle /\ [][NextHandle]_vars

\* C21: if the element restriction is not an ElementRestriction, the
\* assembly aborts with a fatal verification error and publishes no partial
\* result: no CSR array is written and the caller's handle A is not changed
\* to hold a partially built matrix.
C21_AbortLeavesHandleUnchanged ==
  /\ (pc = "handle" /\ handle.restr # "ElementRestriction") =>
       handle.at \in {"entry", "size", "newI", "FillI", "aborted"}
  /\ (pc = "handle" /\ handle.at = "aborted") =>
       /\ "written" \notin {handle.mat.I, handle.mat.J, handle.mat.Data}
       /\ handle.A = handle.A0
       /\ handle.mat = handle.mat0

\* With a restriction of another kind the assembly stops in FillI, before any
\* array is written
C21_AbortsBeforeAnyWrite ==
  /\ (pc = "handle" /\ handle.restr # "ElementRestriction") =>
       /\ handle.at \in {"entry", "size", "newI", "FillI", "aborted"}
       /\ "written" \notin {handle.mat.I, handle.mat.J, handle.mat.Data}
  /\ (pc = "handle" /\ handle.restr = "ElementRestriction") => handle.at # "aborted"

-----------------------------------------------------------------------------
\* The elimination kernels with their workers interleaved.
\*
\* The serial kernel is stepped by Assemble_Step.  The kernel of the
\* diagonal block of a domain is stepped here in the same way: worker i runs
\* one iteration of its loop over j at a time, epc[p][i] being its next j.

\* Domain p launches the kernel of its diagonal block
ParDiag_Begin(p) ==
  /\ pc = "par"
  /\ ppc[p] = "diag"
  /\ epc' = [q \in Domains |->
               IF q = p
                 THEN [i \in DOMAIN par_ess_dofs[p] |-> diag[p].i[par_ess_dofs[p][i]]]
                 ELSE IF q \in DOMAIN epc THEN epc[q] ELSE NoArray]
  /\ ppc' = [ppc EXCEPT ![p] = "diag_workers"]
  /\ UNCHANGED << asmvars, ess_dofs, A0, identity, par_ess_dofs, diag, offd,
                  col_map_offd, send_map_elmts, eliminate_row, eliminate_col,
                  int_buf_data, cols_to_eliminate, net, recvd, auxvars >>

\* Worker i of the kernel of domain p runs one iteration of its loop over j
ParDiag_Step(p, i) ==
  /\ pc = "par"
  /\ ppc[p] = "diag_workers"
  /\ i \in DOMAIN par_ess_dofs[p]
  /\ epc[p][i] < diag[p].i[par_ess_dofs[p][i] + 1]
  /\ LET idof == par_ess_dofs[p][i]
         j == epc[p][i]
         jdof == diag[p].j[j]
     IN  diag' = [diag EXCEPT ![p].data =
                    IF jdof = idof
                      THEN [@ EXCEPT ![j] = 1]
                      ELSE ZeroAt(ZeroAt(@, j),
                                  FindCounterpart(diag[p].i, diag[p].j, jdof, idof))]
  /\ epc' = [epc EXCEPT ![p][i] = @ + 1]
  /\ UNCHANGED << asmvars, ess_dofs, A0, identity, par_ess_dofs, offd,
                  col_map_offd, send_map_elmts, eliminate_row, eliminate_col,
                  int_buf_data, cols_to_eliminate, ppc, net, recvd, auxvars >>

\* The kernel of the diagonal block of domain p has ended
ParDiag_End(p) ==
  /\ pc = "par"
  /\ ppc[p] = "diag_workers"
  /\ \A i \in DOMAIN par_ess_dofs[p] : epc[p][i] = diag[p].i[par_ess_dofs[p][i] + 1]
  /\ ppc' = [ppc EXCEPT ![p] = "offd_rows"]
  /\ UNCHANGED << asmvars, elimvars, identity, par_ess_dofs, diag, offd,
                  col_map_offd, send_map_elmts, eliminate_row, eliminate_col,
                  int_buf_data, cols_to_eliminate, net, recvd, auxvars >>

NextWorkers ==
  \/ FillI_Zero
  \/ \E i \in Workers : FillI_Step(i)
  \/ FillI_Scan
  \/ SparseIJToCSR_New
  \/ FillJ_CopyI
  \/ \E i \in Workers : FillJ_Step(i)
  \/ FillJ_End
  \/ Assemble_Begin
  \/ \E i \in 0 .. NV - 1 : Assemble_Step(i)
  \/ Assemble_End
  \/ \E p \in Domains : Par_Begin(p)
  \/ \E p \in Domains : ParDiag_Begin(p)
  \/ \E p \in Domains : \E i \in 0 .. NLoc - 1 : ParDiag_Step(p, i)
  \/ \E p \in Domains : ParDiag_End(p)

SpecWorkers == InitEliminate /\ [][NextWorkers]_vars

\* The serial kernel run by one worker after the other: the loop over j of
\* the worker of idof
RECURSIVE SerialRow(_, _, _)
SerialRow(dA, idof, j) ==
  IF j >= I[idof + 1] THEN dA
  ELSE SerialRow(EliminateEntry(I, J, dA, idof, j), idof, j + 1)

\* MFEM_FORALL(i, n_ess_dofs, ...) as a sequential loop
RECURSIVE SerialLoop(_, _)
SerialLoop(dA, i) ==
  IF i >= ArrayLen(ess_dofs) THEN dA
  ELSE SerialLoop(SerialRow(dA, ess_dofs[i], I[ess_dofs[i]]), i + 1)

\* C22: the result of the elimination does not depend on the order or the
\* interleaving in which the workers process the essential DOFs: every
\* schedule of the serial kernel, and of the kernel of the diagonal block of
\* a domain, ends with the value array that the workers produce when they
\* run one after the other.
C22_ScheduleIndependent ==
  /\ pc = "eliminated" => AV = SerialLoop(A0, 0)
  /\ pc = "par" =>
       \A p \in Domains : ppc[p] = "offd_rows" =>
         diag[p].data = ParDiagLoop(diag[p], par_ess_dofs[p],
                                    [n \in DOMAIN diag[p].data |-> DiagBase(p) + n], 0)

\* Two coupled essential DOFs of a diagonal block have been eliminated: each
\* worker set its diagonal to 1 and both zeroed the entries that couple them
C22_Witness ==
  /\ pc = "par"
  /\ \E p \in Domains :
       /\ ppc[p] = "offd_rows"
       /\ ParEssSet(p) = LocalDofs
       /\ \E n1, n2, n3 \in DOMAIN diag[p].j :
            /\ n1 \in RowIndices(diag[p], 0) /\ diag[p].j[n1] = 1
            /\ n2 \in RowIndices(diag[p], 1) /\ diag[p].j[n2] = 0
            /\ n3 \in RowIndices(diag[p], 0) /\ diag[p].j[n3] = 0
            /\ diag[p].data[n1] = 0 /\ diag[p].data[n2] = 0 /\ diag[p].data[n3] = 1

-----------------------------------------------------------------------------
\* C23: the fill pass leaves the row offsets I of the matrix unchanged: the
\* write cursors live in a temporary copy of I, so no step of FillJAndData
\* changes I, and after it every I[r] is still the value the prefix sum
\* stored, in every interleaving.
C23_FillKeepsOffsets ==
  /\ [] (pc \in {"copyI", "fill", "done"} =>
           I = ScanLoop([r \in 0 .. nvdof |-> IF r < nvdof THEN rowcount[r] ELSE 0], 0, 0))
  /\ [][(pc \in {"copyI", "fill"}) => (I' = I)]_vars

\* The fill pass has ended with cursors that moved away from the offsets
C23_Witness ==
  /\ pc = "done"
  /\ \E r \in 0 .. nvdof - 1 : Icur[r] # I[r] /\ Icur[r] = I[r + 1]

-----------------------------------------------------------------------------
(***************************************************************************)
(* Termination of the elimination of ParAssemble.  Every domain that has   *)
(* called ParAssemble keeps running, and a message whose receive is posted *)
(* is eventually delivered.  The wait is only required to return once both *)
(* requests of the handle are complete in the strictest sense: the receive *)
(* is filled and the message sent has been taken by the neighbour (a send  *)
(* that completes earlier, from a copy, only returns sooner).              *)
(***************************************************************************)
\* Both requests of the handle of domain p are complete, the send being
\* complete only when its message has been matched by the neighbour
RequestsComplete(p) ==
  /\ HandleComplete(p)
  /\ net[Peer(p)] = << >>

\* The state when every domain enters the elimination, with both diagonal
\* blocks full: they take no part in the exchange
InitParFair ==
  /\ InitPar
  /\ diag[0].j = diag[1].j

SpecParFair ==
  /\ InitParFair
  /\ [][NextPar]_vars
  /\ \A p \in Domains :
       /\ WF_vars(Par_Begin(p))
       /\ WF_vars(Par_Deliver(p))
       /\ WF_vars(Par_ElimDiag(p))
       /\ WF_vars(Par_ElimOffdRows(p))
       /\ WF_vars(Par_Wait(p) /\ RequestsComplete(p))
       /\ WF_vars(Par_SetCols(p))
       /\ WF_vars(Par_ElimOffdCols(p))

\* Domain p has started its exchange: its row mask is filled
\* and the message it owes its neighbour is in flight or has arrived
ExchangeStarted(p) ==
  /\ eliminate_row[p] # NoArray
  /\ ArrayLen(send_map_elmts[p]) > 0 => (net[Peer(p)] # << >> \/ recvd[Peer(p)])

\* C24: distributed elimination is deadlock-free and terminates: a domain
\* at or past its wait has started its exchange, a domain that waits for a
\* message waits for one that is in flight or that its neighbour posts
\* before the neighbour's own wait, and under fair message delivery every
\* domain passes the wait, eliminates its off-diagonal columns and returns
C24_ParAssembleTerminates ==
  /\ [] (\A p \in Domains :
           /\ ppc[p] \in {"wait", "cols", "offd_cols", "done"} => ExchangeStarted(p)
           /\ ppc[p] = "wait" /\ ~HandleComplete(p) =>
                net[p] # << >> \/ ppc[Peer(p)] = "start")
  /\ \A p \in Domains : <> (ppc[p] = "cols")
  /\ <>[] (\A p \in Domains : ppc[p] = "done")

\* Every domain has returned, after a domain that had to wait for its
\* neighbour's mask received it and eliminated a column with it
C24_Witness ==
  /\ pc = "par"
  /\ \A p \in Domains : ppc[p] = "done"
  /\ \E p \in Domains :
       /\ recvd[p]
       /\ ArrayLen(cols_to_eliminate[p]) > 0
       /\ net[p] = << >>

=============================================================================
